---- MODULE Spec2Model ----
(***************************************************************************)
(* State-machine model of the Upstage document-parse client                *)
(* (src/tools/upstage_client.py): request submission with a request-id     *)
(* cache, status polling with a wall-clock budget, batch reconciliation,   *)
(* download, merge, export and the TTL result cache of process_document.   *)
(***************************************************************************)
EXTENDS Integers, Sequences, FiniteSets, TLC

VARIABLES
    pc,                 \* position of the client's thread of control
    stack,              \* return positions of the calls in progress
    call,               \* arguments of the public method being executed
    request_id,         \* self.request_id
    jobs,               \* jobs the service has created
    batch_results,      \* self.batch_results
    _cache,             \* self._cache: key -> (exported files, timestamp)
    _request_id_cache,  \* self._request_id_cache: file hash -> request id
    cs_wait,            \* the wait argument of the running check_status
    start_time,         \* check_status: start_time
    response,           \* request: the response of the POST
    response_data,      \* check_status: response_data
    updated_batches,    \* check_status: updated_batches of the last poll
    downloaded_data,    \* download: downloaded_data
    merged_results,     \* process_document: merged_results
    exported_files,     \* process_document: exported_files
    lookup,             \* process_document: branch taken at the cache lookup
    ret,                \* value returned by the public method
    exc,                \* exception raised by the public method
    now,                \* time.time()
    disk,               \* files under output_dir: path -> content
    net,                \* network requests issued by the running public call
    ncalls,             \* public calls made so far
    suspended,          \* the invocation on the same client that is not running
    conversion_cache,   \* tool: self.conversion_cache, the index in memory
    cache_files,        \* tool: files under cache_dir: path -> content
    tool_results,       \* tool: results, what convert_to_* returned
    yielded             \* tool: the messages _invoke has yielded

\* the fields of the client object
fields == <<request_id, batch_results, _cache, _request_id_cache>>
\* the locals of check_status
csLocals == <<cs_wait, start_time, response_data, updated_batches>>
\* the locals of process_document and of the stages it calls
pdLocals == <<downloaded_data, merged_results, exported_files, lookup>>
\* the world outside the client
env == <<now, disk, jobs>>
\* the fields and locals of the tool
toolVars == <<conversion_cache, cache_files, tool_results, yielded>>
\* what no method of the client touches
outer == <<suspended, conversion_cache, cache_files, tool_results, yielded>>

vars == <<pc, stack, call, request_id, batch_results, _cache, _request_id_cache,
          cs_wait, start_time, response, response_data, updated_batches,
          downloaded_data, merged_results, exported_files, lookup, ret, exc,
          now, disk, jobs, net, ncalls, suspended, conversion_cache,
          cache_files, tool_results, yielded>>

-----------------------------------------------------------------------------
(* Bounds of the model *)

\* public calls in one behaviour
MaxCalls == 2
\* seconds a sleep may overrun poll_interval (time spent in the GET included)
MaxJitter == 1

\* seconds past the TTL up to which idle time is followed
MaxSlack == 4

(* Program constants *)

\* self._cache_ttl
CacheTTL == 3600

-----------------------------------------------------------------------------
(* Values *)

None == "None"

\* ret while the public call has not returned
NoValue == <<>>
\* a page number that is None
NoPage == 0

\* BatchResult(id, status, download_url, start_page, end_page)
BatchResult(id, status, download_url, start_page, end_page) ==
    [id |-> id, status |-> status, download_url |-> download_url,
     start_page |-> start_page, end_page |-> end_page]

\* the URL the service gives for the result of batch id
UrlOf(id) == <<"url", id>>
NoUrl == <<"url", 0>>

\* self.request_id = None
\* the request id the service gives to its n-th job
JobId(n) == <<"job", n>>
NoJob == <<"job", 0>>

\* the answer to the POST: status code, and request_id of the body if it has one
SubmitResponse(code, id) == [request_id |-> id, code |-> code]
NoSubmitResponse == SubmitResponse(0, NoJob)

BatchStatuses == {"processing", "completed"}
JobStatuses == {"submitted", "processing", "completed", "failed"}

\* the (status, download_url) pairs a batch entry of a response may carry
Processing(i) == <<"processing", NoUrl>>
CompletedWithUrl(i) == <<"completed", UrlOf(i)>>
CompletedNoUrl(i) == <<"completed", NoUrl>>

\* the entries of "batches" in a status response, for the shapes given
BatchDicts(ids, Ranges, Shapes) ==
    UNION { { BatchResult(i, su[1], su[2], r[1], r[2]) :
                r \in Ranges[i], su \in Shapes[i] } : i \in ids }

\* batch lists with pairwise different ids, at most n long, in any order
BatchLists(dicts, n) ==
    { s \in UNION { [1..k -> dicts] : k \in 0..n } :
        \A a, b \in DOMAIN s : a # b => s[a].id # s[b].id }

\* those the service lists in the order of the ids
AscendingLists(dicts, n) ==
    { s \in BatchLists(dicts, n) : \A a, b \in DOMAIN s : a < b => s[a].id < s[b].id }

\* a status response: HTTP code and, for a 200, the JSON body
StatusResponse(code, status, has_batches, batches) ==
    [status |-> status, code |-> code, has_batches |-> has_batches,
     batches |-> batches]

ErrorResponse == StatusResponse(500, None, FALSE, <<>>)

NoResponse == StatusResponse(0, None, FALSE, <<>>)

\* what a GET of the status URL may answer, for the job statuses and the
\* batch lists given
StatusResponses(statuses, lists) ==
    {ErrorResponse} \cup
    { StatusResponse(200, s, TRUE, b) : s \in statuses, b \in lists } \cup
    { StatusResponse(200, s, FALSE, <<>>) : s \in statuses }

\* response.raise_for_status(): raises for 4xx and 5xx only
RaisesForStatus(code) == code >= 400 /\ code < 600

-----------------------------------------------------------------------------
(* check_status: reconciliation of the batch list (lines 411-423) *)

PageKey(b) == <<b.start_page, b.end_page>>

\* batch.id > unique_batches[key].id
Supersedes_Smaller(batch, kept) == batch.id < kept.id

Supersedes(batch, kept) == batch.id > kept.id

\* one iteration of "for batch in self.batch_results" over the dict, kept as
\* the sequence of its values in insertion order
UniqueStep(unique, batch) ==
    IF \E k \in DOMAIN unique : PageKey(unique[k]) = PageKey(batch)
    THEN [k \in DOMAIN unique |->
            IF PageKey(unique[k]) = PageKey(batch) /\ Supersedes(batch, unique[k])
            THEN batch ELSE unique[k]]
    ELSE Append(unique, batch)

RECURSIVE UniqueBatches(_, _)
UniqueBatches(unique, batches) ==
    IF batches = <<>> THEN unique
    ELSE UniqueBatches(UniqueStep(unique, Head(batches)), Tail(batches))

\* sorted(..., key=lambda x: x.id): stable, ascending
RECURSIVE InsertById(_, _)
InsertById(sorted, b) ==
    IF sorted = <<>> THEN <<b>>
    ELSE IF Head(sorted).id <= b.id
         THEN <<Head(sorted)>> \o InsertById(Tail(sorted), b)
         ELSE <<b>> \o sorted

RECURSIVE SortedById(_, _)
SortedById(acc, s) ==
    IF s = <<>> THEN acc ELSE SortedById(InsertById(acc, Head(s)), Tail(s))

\* a reconciliation that leaves the survivors in the order of the dict
Reconcile_Unsorted(batches) == UniqueBatches(<<>>, batches)

Reconcile(batches) == SortedById(<<>>, UniqueBatches(<<>>, batches))

-----------------------------------------------------------------------------
(* check_status: polling (lines 304-409) *)

AllCompleted(results) == \A k \in DOMAIN results : results[k].status = "completed"

\* the body of "for result in self.batch_results: if result.id == updated_batch['id']"
UpdateResult(result, updated_batch) ==
    IF result.id = updated_batch.id
    THEN [result EXCEPT
            !.status = updated_batch.status,
            !.download_url =
                IF updated_batch.status = "completed" /\ updated_batch.download_url # NoUrl
                THEN updated_batch.download_url ELSE @]
    ELSE result

RECURSIVE UpdateBatches(_, _)
UpdateBatches(results, updated) ==
    IF updated = <<>> THEN results
    ELSE UpdateBatches([k \in DOMAIN results |-> UpdateResult(results[k], Head(updated))],
                       Tail(updated))

\* a budget that is spent as soon as it is reached
BudgetExceeded_Reached == now - start_time >= call.max_wait

\* elapsed > max_wait
BudgetExceeded == now - start_time > call.max_wait

\* the positions process_document goes on at after the stages it calls inside
\* its try block (lines 711-726)
PdFrames == {"pd_requested", "pd_download", "pd_merge", "pd_export", "pd_store"}

\* the except clause that guards the call a frame is waiting for: that of
\* process_document (line 727) or of convert_to_* (lines 760, 786, 812)
Handler(frame) ==
    IF frame \in PdFrames THEN "pd_except"
    ELSE IF frame = "convert_read" THEN "convert_except"
    ELSE "raised"

\* the frames of a stack from the innermost one that is inside a try block
RECURSIVE Unwind(_)
Unwind(frames) ==
    IF frames = <<>> THEN <<>>
    ELSE IF Handler(Head(frames)) # "raised" THEN frames
    ELSE Unwind(Tail(frames))

\* raise: the exception goes to the innermost except clause around the
\* running call, or out of the public call
Raise(type) ==
    /\ exc' = type
    /\ IF Unwind(stack) = <<>>
       THEN pc' = "raised" /\ stack' = <<>>
       ELSE pc' = Handler(Head(Unwind(stack))) /\ stack' = Tail(Unwind(stack))

\* return from a method: to the caller's next position, or out of the public call
ReturnTo(value) ==
    IF stack = <<>>
    THEN pc' = "returned" /\ ret' = value /\ stack' = stack
    ELSE pc' = Head(stack) /\ stack' = Tail(stack) /\ ret' = ret

CountNet(kind) == net' = [net EXCEPT ![kind] = @ + 1]

\* time.sleep(poll_interval), and the time j the next GET takes
Sleep(J) == \E j \in J : now' = now + call.poll_interval + j

\* call a method: run it from position entry, then go on at position after
CallMethod(entry, after) ==
    /\ pc' = entry
    /\ stack' = <<after>> \o stack

\* lines 304-331: the first GET
CS_FirstGet(R) ==
    /\ pc = "check_status"
    /\ updated_batches' = <<>>
    /\ IF request_id = NoJob
       THEN /\ Raise("ValueError")
            /\ UNCHANGED <<start_time, response_data, net>>
       ELSE /\ start_time' = now
            /\ CountNet("status")
            /\ \E r \in R :
                IF r.code # 200 /\ RaisesForStatus(r.code)
                THEN Raise("HTTPError") /\ UNCHANGED response_data
                ELSE /\ response_data' = r
                     /\ pc' = "cs_submitted"
                     /\ UNCHANGED <<stack, exc>>
    /\ UNCHANGED <<outer, call, fields, cs_wait, pdLocals, response, ret, env, ncalls>>

\* lines 333-348: one iteration of the loop on the job status "submitted"
CS_WaitSubmitted(R, J) ==
    /\ pc = "cs_submitted"
    /\ cs_wait /\ response_data.status = "submitted"
    /\ IF BudgetExceeded
       THEN /\ Raise("TimeoutError")
            /\ UNCHANGED <<response_data, now, net>>
       ELSE /\ Sleep(J)
            /\ CountNet("status")
            /\ \E r \in R :
                IF RaisesForStatus(r.code)
                THEN Raise("HTTPError") /\ UNCHANGED response_data
                ELSE /\ response_data' = r
                     /\ UNCHANGED <<pc, stack, exc>>
    /\ UNCHANGED <<outer, call, fields, cs_wait, start_time, updated_batches, pdLocals,
                   response, ret, disk, jobs, ncalls>>

\* a batch phase with a time budget of its own
CS_ReadBatches_ResetClock ==
    /\ pc = "cs_submitted"
    /\ ~(cs_wait /\ response_data.status = "submitted")
    /\ start_time' = now
    /\ IF ~response_data.has_batches
       THEN Raise("ValueError") /\ UNCHANGED batch_results
       ELSE /\ batch_results' = response_data.batches
            /\ pc' = "cs_batches"
            /\ UNCHANGED <<stack, exc>>
    /\ UNCHANGED <<outer, call, request_id, _cache, _request_id_cache, cs_wait,
                   response_data, updated_batches,
                   pdLocals, response, ret, env, net, ncalls>>

\* lines 350-369: the batch list of the response becomes self.batch_results
CS_ReadBatches ==
    /\ pc = "cs_submitted"
    /\ ~(cs_wait /\ response_data.status = "submitted")
    /\ IF ~response_data.has_batches
       THEN Raise("ValueError") /\ UNCHANGED batch_results
       ELSE /\ batch_results' = response_data.batches
            /\ pc' = "cs_batches"
            /\ UNCHANGED <<stack, exc>>
    /\ UNCHANGED <<outer, call, request_id, _cache, _request_id_cache, csLocals,
                   pdLocals, response, ret, env, net, ncalls>>

\* lines 371-408: one iteration of the loop on the batches not completed
CS_WaitBatches(R, J) ==
    /\ pc = "cs_batches"
    /\ cs_wait /\ ~AllCompleted(batch_results)
    /\ IF BudgetExceeded
       THEN /\ Raise("TimeoutError")
            /\ UNCHANGED <<updated_batches, batch_results, now, net>>
       ELSE /\ Sleep(J)
            /\ CountNet("status")
            /\ \E r \in R :
                IF RaisesForStatus(r.code)
                THEN /\ Raise("HTTPError")
                     /\ UNCHANGED <<updated_batches, batch_results>>
                ELSE /\ updated_batches' = r.batches
                     /\ batch_results' = UpdateBatches(batch_results, r.batches)
                     /\ UNCHANGED <<pc, stack, exc>>
    /\ UNCHANGED <<outer, call, request_id, _cache, _request_id_cache, cs_wait,
                   start_time, response_data, pdLocals, response, ret, disk,
                   jobs, ncalls>>

\* lines 409-424: reconcile and return; of a check_status that returns to a
\* calling method the arguments are gone, and response_data and
\* updated_batches stay as the last answers of the service
CS_Return ==
    /\ pc = "cs_batches"
    /\ ~(cs_wait /\ ~AllCompleted(batch_results))
    /\ batch_results' = Reconcile(batch_results)
    /\ ReturnTo(batch_results')
    /\ IF stack = <<>>
       THEN UNCHANGED <<cs_wait, start_time>>
       ELSE cs_wait' = FALSE /\ start_time' = 0
    /\ UNCHANGED <<outer, response_data, updated_batches>>
    /\ UNCHANGED <<outer, call, request_id, _cache, _request_id_cache, pdLocals,
                   response, exc, env, net, ncalls>>

-----------------------------------------------------------------------------
(* Dictionaries: a Python dict is a function whose domain is its key set *)

EmptyDict == <<>>
Put(d, k, v) == [x \in DOMAIN d \cup {k} |-> IF x = k THEN v ELSE d[x]]
Del(d, k) == [x \in DOMAIN d \ {k} |-> d[x]]

-----------------------------------------------------------------------------
(* Cache keys (lines 115-176) *)

\* hashlib.sha256(x).hexdigest(): a digest that tells different inputs apart
Sha256(x) == <<"sha256", x>>

\* export_formats = None
NoFormats == <<None>>

\* json.dumps(export_formats, sort_keys=True) of a list, or the text "None":
\* sort_keys orders the keys of dicts, a list keeps its order
ExportFormatsStr(export_formats) ==
    IF export_formats = NoFormats THEN <<None>>
    ELSE <<"[">> \o export_formats \o <<"]">>

\* _generate_cache_key
GenerateCacheKey(file, export_formats) ==
    <<Sha256(file.content), Sha256(ExportFormatsStr(export_formats))>>

\* _generate_request_cache_key
GenerateRequestCacheKey(file) == Sha256(file.content)

-----------------------------------------------------------------------------
(* request (lines 202-278) *)

\* the status codes request takes for a success
SubmitAccepts(code) == code \in {200, 202}

\* a POST whose request_id is recorded before its status code is looked at
Request_Post_Eager(r) ==
    /\ CountNet("submit")
    /\ response' = r
    /\ jobs' = IF r.request_id = NoJob THEN jobs ELSE jobs + 1
    /\ IF ~SubmitAccepts(r.code) /\ RaisesForStatus(r.code)
       THEN /\ Raise("HTTPError")
            /\ request_id' = r.request_id
            /\ UNCHANGED <<_request_id_cache, cs_wait, ret>>
       ELSE IF r.request_id = NoJob
       THEN /\ Raise("ValueError")
            /\ UNCHANGED <<request_id, _request_id_cache, cs_wait, ret>>
       ELSE /\ request_id' = r.request_id
            /\ _request_id_cache' =
                   Put(_request_id_cache, GenerateRequestCacheKey(call.file), r.request_id)
            /\ IF call.wait
               THEN /\ cs_wait' = TRUE
                    /\ CallMethod("check_status", "request_return")
                    /\ UNCHANGED <<ret, exc>>
               ELSE /\ ReturnTo(request_id')
                    /\ UNCHANGED <<cs_wait, exc>>

\* lines 237-274: the POST and its answer r; a POST answered with a
\* request_id has created a job
Request_Post(r) ==
    /\ CountNet("submit")
    /\ response' = r
    /\ jobs' = IF r.request_id = NoJob THEN jobs ELSE jobs + 1
    /\ IF ~SubmitAccepts(r.code) /\ RaisesForStatus(r.code)
       THEN /\ Raise("HTTPError")
            /\ UNCHANGED <<request_id, _request_id_cache, cs_wait, ret>>
       ELSE IF r.request_id = NoJob
       THEN /\ Raise("ValueError")
            /\ UNCHANGED <<request_id, _request_id_cache, cs_wait, ret>>
       ELSE /\ request_id' = r.request_id
            /\ _request_id_cache' =
                   Put(_request_id_cache, GenerateRequestCacheKey(call.file), r.request_id)
            /\ IF call.wait
               THEN /\ cs_wait' = TRUE
                    /\ CallMethod("check_status", "request_return")
                    /\ UNCHANGED <<ret, exc>>
               ELSE /\ ReturnTo(request_id')
                    /\ UNCHANGED <<cs_wait, exc>>

\* a request that does not consult the cache and submits again
Request_Resubmit ==
    \E r \in {[request_id |-> JobId(jobs + 1), code |-> 200]} : Request_Post(r)

\* lines 206-217: the file was submitted before
Request_Cached ==
    /\ request_id' = _request_id_cache[GenerateRequestCacheKey(call.file)]
    /\ IF call.wait
       THEN /\ cs_wait' = TRUE
            /\ CallMethod("check_status", "request_return")
            /\ ret' = ret
       ELSE /\ ReturnTo(request_id')
            /\ cs_wait' = cs_wait
    /\ UNCHANGED <<outer, _request_id_cache, response, net, exc, jobs>>

\* request, up to its return or its call of check_status
Request(S) ==
    /\ pc = "request"
    /\ IF ~call.file.exists
       THEN /\ Raise("FileNotFoundError")
            /\ UNCHANGED <<request_id, _request_id_cache, cs_wait, response, ret,
                           net, jobs>>
       ELSE IF GenerateRequestCacheKey(call.file) \in DOMAIN _request_id_cache
       THEN Request_Cached
       ELSE \E r \in S : Request_Post(r)
    /\ UNCHANGED <<outer, call, batch_results, _cache, start_time, response_data,
                   updated_batches, pdLocals, now, disk, ncalls>>

\* line 217, line 274: return self.request_id, after the wait
Request_Return ==
    /\ pc = "request_return"
    /\ ReturnTo(request_id)
    /\ UNCHANGED <<outer, call, fields, csLocals, pdLocals, response, exc, env, net, ncalls>>

-----------------------------------------------------------------------------
(* download (lines 452-540) *)

\* a download that skips no batch
Downloadable_Any(result) == TRUE

\* result.status == "completed" and result.download_url
Downloadable(result) == result.status = "completed" /\ result.download_url # NoUrl

\* a loop that fetches from the end of the list
RECURSIVE ToFetch_Reversed(_)
ToFetch_Reversed(results) ==
    IF results = <<>> THEN <<>>
    ELSE ToFetch_Reversed(Tail(results))
         \o (IF Downloadable(Head(results)) THEN <<Head(results)>> ELSE <<>>)

\* the batches the loop of lines 484-485 fetches, in list order
RECURSIVE ToFetch(_)
ToFetch(results) ==
    IF results = <<>> THEN <<>>
    ELSE (IF Downloadable(Head(results)) THEN <<Head(results)>> ELSE <<>>)
         \o ToFetch(Tail(results))

\* lines 452-461: with no batch results, check the status once, not waiting
Download_Enter ==
    /\ pc = "download"
    /\ IF request_id = NoJob
       THEN Raise("ValueError") /\ cs_wait' = cs_wait
       ELSE IF batch_results = <<>>
       THEN /\ cs_wait' = FALSE
            /\ CallMethod("check_status", "download_fetch")
            /\ exc' = exc
       ELSE /\ pc' = "download_fetch"
            /\ UNCHANGED <<stack, exc, cs_wait>>
    /\ UNCHANGED <<outer, call, fields, start_time, response_data, updated_batches,
                   pdLocals, response, ret, env, net, ncalls>>

\* a download that goes on after a failed fetch with what it has
Download_Fetch_BestEffort(P) ==
    /\ pc = "download_fetch"
    /\ LET todo == ToFetch(batch_results) IN
       \E k \in 0..Len(todo) :
       \E got \in [1..k -> UNION {P[todo[i].id] : i \in 1..Len(todo)}] :
         /\ \A i \in 1..k : got[i] \in P[todo[i].id]
         /\ net' = [net EXCEPT !.download = @ + IF k = Len(todo) THEN k ELSE k + 1]
         /\ downloaded_data' = got
         /\ ReturnTo(got)
         /\ exc' = exc
    /\ UNCHANGED <<outer, call, fields, csLocals, merged_results, exported_files,
                   lookup, response, env, ncalls>>

\* lines 481-540: the fetches, in list order; the first failure ends them
Download_Fetch(P) ==
    /\ pc = "download_fetch"
    /\ LET todo == ToFetch(batch_results) IN
       \E k \in 0..Len(todo) :
       \E got \in [1..k -> UNION {P[todo[i].id] : i \in 1..Len(todo)}] :
         /\ \A i \in 1..k : got[i] \in P[todo[i].id]
         /\ \/ /\ k = Len(todo)
               /\ net' = [net EXCEPT !.download = @ + k]
               /\ downloaded_data' = got
               /\ ReturnTo(got)
               /\ exc' = exc
            \/ /\ k < Len(todo)
               /\ net' = [net EXCEPT !.download = @ + k + 1]
               /\ \E e \in {"HTTPError", "JSONDecodeError"} : Raise(e)
               /\ UNCHANGED <<downloaded_data, ret>>
    /\ UNCHANGED <<outer, call, fields, csLocals, merged_results, exported_files,
                   lookup, response, env, ncalls>>

-----------------------------------------------------------------------------
(* merge_results (lines 555-594) *)

\* a join that keeps the first content only
Join_FirstOnly(sep, contents) ==
    IF Len(contents) = 0 THEN <<>> ELSE contents[1]

\* "\n\n".join(contents)
RECURSIVE Join(_, _)
Join(sep, contents) ==
    IF Len(contents) = 0 THEN <<>>
    ELSE IF Len(contents) = 1 THEN contents[1]
    ELSE contents[1] \o sep \o Join(sep, Tail(contents))

\* a text is a sequence of tokens <<batch id, text>>; "\n\n" is one token
BlankLine == << <<0, "\n\n">> >>

\* the formats every payload with a content carries
ResultFormats_Common(data) ==
    { f \in UNION { DOMAIN data[i].content : i \in {j \in DOMAIN data : data[j].has_content} } :
        \A i \in {j \in DOMAIN data : data[j].has_content} : f \in DOMAIN data[i].content }

\* lines 564-567: the formats any payload carries
ResultFormats(data) ==
    UNION { DOMAIN data[i].content : i \in {j \in DOMAIN data : data[j].has_content} }

\* lines 572-580: the contents of one format, in payload order
RECURSIVE ContentsOf(_, _)
ContentsOf(data, fmt) ==
    IF data = <<>> THEN <<>>
    ELSE (IF Head(data).has_content /\ fmt \in DOMAIN Head(data).content
          THEN <<Head(data).content[fmt]>> ELSE <<>>) \o ContentsOf(Tail(data), fmt)

\* lines 563-594
MergeData(data) ==
    LET fmts == {f \in ResultFormats(data) : ContentsOf(data, f) # <<>>}
    IN  [f \in fmts |-> [content |-> Join(BlankLine, ContentsOf(data, f))]]

\* lines 555-557: with no data, download
Merge_Enter ==
    /\ pc = "merge_results"
    /\ IF downloaded_data = <<>>
       THEN CallMethod("download", "merge_data")
       ELSE pc' = "merge_data" /\ stack' = stack
    /\ UNCHANGED <<outer, call, fields, csLocals, pdLocals, response, ret, exc, env,
                   net, ncalls>>

\* lines 559-594
Merge_Data ==
    /\ pc = "merge_data"
    /\ merged_results' = IF downloaded_data = <<>> THEN EmptyDict
                         ELSE MergeData(downloaded_data)
    /\ ReturnTo(merged_results')
    /\ UNCHANGED <<outer, call, fields, csLocals, downloaded_data, exported_files,
                   lookup, response, exc, env, net, ncalls>>

-----------------------------------------------------------------------------
(* export (lines 616-664) *)

\* lines 649-653
Extension(fmt) ==
    IF fmt = "markdown" THEN "md"
    ELSE IF fmt = "html" THEN "html"
    ELSE IF fmt = "text" THEN "txt"
    ELSE fmt

\* output_path / f"{filename}.{ext}", filename = Path(file_path).stem
OutputFile(file, fmt) == <<file.stem, Extension(fmt)>>

\* lines 633-638: set(formats) & available_formats if formats else available_formats
ExportFormats(formats, available) ==
    IF formats = NoFormats \/ formats = <<>> THEN available
    ELSE {formats[i] : i \in DOMAIN formats} \cap available

\* lines 625-627: with no merged results, merge
Export_Enter ==
    /\ pc = "export"
    /\ IF merged_results = EmptyDict
       THEN /\ CallMethod("merge_results", "export_write")
            /\ downloaded_data' = <<>>
       ELSE /\ pc' = "export_write" /\ stack' = stack
            /\ downloaded_data' = downloaded_data
    /\ UNCHANGED <<outer, call, fields, csLocals, merged_results, exported_files,
                   lookup, response, ret, exc, env, net, ncalls>>

\* an export that raises at the first write that fails
Export_Write_FailFast(Failing) ==
    /\ pc = "export_write"
    /\ LET todo == IF merged_results = EmptyDict THEN {}
                   ELSE ExportFormats(call.export_formats, DOMAIN merged_results)
       IN \E failed \in {x \cap todo : x \in Failing} :
            IF failed # {}
            THEN /\ Raise("OSError")
                 /\ UNCHANGED <<exported_files, disk, ret>>
            ELSE /\ exported_files' = [f \in todo |-> OutputFile(call.file, f)]
                 /\ disk' = [q \in DOMAIN disk \cup {OutputFile(call.file, f) : f \in todo} |->
                               IF \E f \in todo : OutputFile(call.file, f) = q
                               THEN merged_results[CHOOSE f \in todo :
                                                      OutputFile(call.file, f) = q].content
                               ELSE disk[q]]
                 /\ ReturnTo(exported_files')
                 /\ exc' = exc
    /\ UNCHANGED <<outer, call, fields, csLocals, downloaded_data, merged_results,
                   lookup, response, now, jobs, net, ncalls>>

\* lines 629-664: the files written; the writes of the formats in failed
\* raise and are logged
Export_Write(Failing) ==
    /\ pc = "export_write"
    /\ LET todo == IF merged_results = EmptyDict THEN {}
                   ELSE ExportFormats(call.export_formats, DOMAIN merged_results)
       IN \E failed \in {x \cap todo : x \in Failing} :
            /\ exported_files' = [f \in todo \ failed |-> OutputFile(call.file, f)]
            /\ disk' = [q \in DOMAIN disk \cup {OutputFile(call.file, f) : f \in todo \ failed} |->
                          IF \E f \in todo \ failed : OutputFile(call.file, f) = q
                          THEN merged_results[CHOOSE f \in todo \ failed :
                                                 OutputFile(call.file, f) = q].content
                          ELSE disk[q]]
    /\ ReturnTo(exported_files')
    /\ UNCHANGED <<outer, call, fields, csLocals, downloaded_data, merged_results,
                   lookup, response, exc, now, jobs, net, ncalls>>

-----------------------------------------------------------------------------
(* process_document (lines 692-733) *)

\* a lookup that does not look at the disk
FilesExist_Unchecked(cached_result) == TRUE

\* an existence check that an entry without paths does not pass
FilesExist_NonEmpty(cached_result) ==
    /\ cached_result # <<>>
    /\ \A f \in DOMAIN cached_result : cached_result[f] \in DOMAIN disk

\* all(os.path.exists(path) for path in cached_result.values())
FilesExist(cached_result) ==
    \A f \in DOMAIN cached_result : cached_result[f] \in DOMAIN disk

\* an entry that never expires
Fresh_Forever(timestamp) == TRUE

\* an entry that is fresh only once the TTL has passed
Fresh_Inverted(timestamp) == now - timestamp > CacheTTL

\* time.time() - timestamp < self._cache_ttl
Fresh(timestamp) == now - timestamp < CacheTTL

\* lines 696-709: what the lookup of cache_key finds
Lookup(cache_key) ==
    IF cache_key \notin DOMAIN _cache THEN "miss"
    ELSE IF ~FilesExist(_cache[cache_key].result) THEN "deleted"
    ELSE IF Fresh(_cache[cache_key].timestamp) THEN "hit"
    ELSE "expired"

CacheKey == GenerateCacheKey(call.file, call.export_formats)

\* lines 692-714: the key, the lookup, and the call of request
PD_Lookup ==
    /\ pc = "process_document"
    /\ IF ~call.file.exists
       THEN /\ Raise("FileNotFoundError")
            /\ UNCHANGED <<_cache, lookup, ret>>
       ELSE /\ lookup' = Lookup(CacheKey)
            /\ IF lookup' = "hit"
               THEN /\ ReturnTo(_cache[CacheKey].result)
                    /\ UNCHANGED <<_cache, exc>>
               ELSE /\ _cache' = IF lookup' = "miss" THEN _cache ELSE Del(_cache, CacheKey)
                    /\ CallMethod("request", "pd_requested")
                    /\ UNCHANGED <<ret, exc>>
    /\ UNCHANGED <<outer, call, request_id, batch_results, _request_id_cache, csLocals,
                   downloaded_data, merged_results, exported_files, response,
                   env, net, ncalls>>

\* a process_document that leaves the wait to request
PD_Requested_NoWait ==
    /\ pc = "pd_requested"
    /\ pc' = "pd_download" /\ stack' = stack
    /\ cs_wait' = cs_wait
    /\ UNCHANGED <<outer, call, fields, start_time, response_data, updated_batches,
                   pdLocals, response, ret, exc, env, net, ncalls>>

\* lines 715-719: wait if request did not, then download
PD_Requested ==
    /\ pc = "pd_requested"
    /\ IF ~call.wait
       THEN /\ cs_wait' = TRUE
            /\ CallMethod("check_status", "pd_download")
       ELSE /\ pc' = "pd_download" /\ stack' = stack
            /\ cs_wait' = cs_wait
    /\ UNCHANGED <<outer, call, fields, start_time, response_data, updated_batches,
                   pdLocals, response, ret, exc, env, net, ncalls>>

\* line 719
PD_Download ==
    /\ pc = "pd_download"
    /\ CallMethod("download", "pd_merge")
    /\ UNCHANGED <<outer, call, fields, csLocals, pdLocals, response, ret, exc, env,
                   net, ncalls>>

\* line 720
PD_Merge ==
    /\ pc = "pd_merge"
    /\ CallMethod("merge_results", "pd_export")
    /\ UNCHANGED <<outer, call, fields, csLocals, pdLocals, response, ret, exc, env,
                   net, ncalls>>

\* lines 721-726
PD_Export ==
    /\ pc = "pd_export"
    /\ CallMethod("export", "pd_store")
    /\ UNCHANGED <<outer, call, fields, csLocals, pdLocals, response, ret, exc, env,
                   net, ncalls>>

\* lines 731-733: cache the result and return it
PD_Store ==
    /\ pc = "pd_store"
    /\ _cache' = Put(_cache, CacheKey, [result |-> exported_files, timestamp |-> now])
    /\ ReturnTo(exported_files)
    /\ UNCHANGED <<outer, call, request_id, batch_results, _request_id_cache, csLocals,
                   pdLocals, response, exc, env, net, ncalls>>

\* an except clause that turns the failure into an empty result
PD_Except_Swallow ==
    /\ pc = "pd_except"
    /\ ReturnTo(EmptyDict)
    /\ UNCHANGED <<outer, call, fields, csLocals, pdLocals, response, exc, env, net, ncalls>>

\* an except clause that forgets the job of the file whose processing failed
PD_Except_Forget ==
    /\ pc = "pd_except"
    /\ Raise(exc)
    /\ _request_id_cache' =
          IF call.file.exists
          THEN Del(_request_id_cache, GenerateRequestCacheKey(call.file))
          ELSE _request_id_cache
    /\ UNCHANGED <<outer, call, request_id, batch_results, _cache, csLocals, pdLocals,
                   response, ret, env, net, ncalls>>

\* an except clause that caches an empty result for the call that failed
PD_Except_Cache ==
    /\ pc = "pd_except"
    /\ Raise(exc)
    /\ _cache' = Put(_cache, CacheKey, [result |-> EmptyDict, timestamp |-> now])
    /\ UNCHANGED <<outer, call, request_id, batch_results, _request_id_cache, csLocals,
                   pdLocals, response, ret, env, net, ncalls>>

\* lines 727-729: the exception of a stage is logged and raised again
PD_Except ==
    /\ pc = "pd_except"
    /\ Raise(exc)
    /\ UNCHANGED <<outer, call, fields, csLocals, pdLocals, response, ret, env, net, ncalls>>

-----------------------------------------------------------------------------
(* convert_to_markdown, convert_to_html, convert_to_text (lines 735-814) *)

\* max_wait of process_document when the caller gives none (line 672)
DefaultMaxWait == 300

\* the content convert_to_* returns when it returns None
NoContent == << <<0, "None">> >>

ConvertFormats == {"markdown", "html", "text"}

\* the public method that converts to format fmt
ConvertApi(fmt) ==
    IF fmt = "markdown" THEN "convert_to_markdown"
    ELSE IF fmt = "html" THEN "convert_to_html"
    ELSE "convert_to_text"

\* a call of convert_to_<fmt>(file), with the arguments it gives to
\* process_document (lines 750-752, 777, 803)
ConvertTo(fmt, file) ==
    [max_wait |-> DefaultMaxWait, poll_interval |-> 1, export_formats |-> <<fmt>>,
     file |-> file, wait |-> TRUE, api |-> ConvertApi(fmt)]

\* the map process_document has returned to its caller
Processed == IF lookup = "hit" THEN _cache[CacheKey].result ELSE exported_files

\* lines 748-752: the call of process_document inside the try
Convert_Call ==
    /\ pc \in {ConvertApi(f) : f \in ConvertFormats}
    /\ CallMethod("process_document", "convert_read")
    /\ UNCHANGED <<outer, call, fields, csLocals, pdLocals, response, ret, exc, env,
                   net, ncalls>>

\* lines 753-759: the content of the exported file, or None without the key;
\* a file that cannot be read raises inside the try
Convert_Read ==
    /\ pc = "convert_read"
    /\ LET fmt == call.export_formats[1] IN
       IF fmt \in DOMAIN Processed /\ Processed[fmt] \notin DOMAIN disk
       THEN /\ pc' = "convert_except" /\ exc' = "FileNotFoundError"
            /\ UNCHANGED <<stack, ret, tool_results>>
       ELSE /\ tool_results' = IF fmt \in DOMAIN Processed THEN disk[Processed[fmt]]
                                ELSE NoContent
            /\ ReturnTo(tool_results')
            /\ exc' = exc
    /\ UNCHANGED <<suspended, conversion_cache, cache_files, yielded, call, fields,
                   csLocals, pdLocals, response, env, net, ncalls>>

\* an except clause that raises the exception again
Convert_Except_Reraise ==
    /\ pc = "convert_except"
    /\ Raise(exc)
    /\ UNCHANGED <<outer, call, fields, csLocals, pdLocals, response, ret, env,
                   net, ncalls>>

\* lines 760-762: any exception is logged and None is returned
Convert_Except ==
    /\ pc = "convert_except"
    /\ tool_results' = NoContent
    /\ ReturnTo(NoContent)
    /\ UNCHANGED <<suspended, conversion_cache, cache_files, yielded, call, fields,
                   csLocals, pdLocals, response, exc, env, net, ncalls>>

-----------------------------------------------------------------------------
(* What lies outside a single call of the client *)

\* the index of the tool: what json.load gave ("object", "array", "null",
\* ...) and, for an object, its keys
Index(json, keys) == [json |-> json, keys |-> keys]
EmptyIndex == Index("object", {})

\* the locals of an invocation: what is put aside when another one runs
Context(p, s, c) ==
    [pc |-> p, stack |-> s, call |-> c, cs_wait |-> FALSE, start_time |-> 0,
     response |-> [request_id |-> <<"job", 0>>, code |-> 0],
     response_data |-> [status |-> "None", code |-> 0, has_batches |-> FALSE,
                        batches |-> <<>>],
     updated_batches |-> <<>>, downloaded_data |-> <<>>, merged_results |-> <<>>,
     exported_files |-> <<>>, lookup |-> "None", ret |-> <<>>, exc |-> "None",
     net |-> [status |-> 0, download |-> 0, submit |-> 0]]

\* no second invocation
NoContext == Context("idle", <<>>, [api |-> "idle"])

\* the client is used by one invocation at a time
Alone == suspended = NoContext

\* the client is used without the tool
NoTool ==
    /\ conversion_cache = EmptyIndex
    /\ cache_files = <<>>
    /\ tool_results = NoContent
    /\ yielded = <<>>

\* the locals of the running invocation
Running ==
    [pc |-> pc, stack |-> stack, call |-> call, cs_wait |-> cs_wait,
     start_time |-> start_time, response |-> response,
     response_data |-> response_data, updated_batches |-> updated_batches,
     downloaded_data |-> downloaded_data, merged_results |-> merged_results,
     exported_files |-> exported_files, lookup |-> lookup, ret |-> ret,
     exc |-> exc, net |-> net]

\* a switch that gives each invocation its own request_id and batch_results
Switch_Private ==
    /\ suspended.pc \notin {"idle", "returned", "raised"}
    /\ pc # "download_fetch"
    /\ pc' = suspended.pc /\ stack' = suspended.stack /\ call' = suspended.call
    /\ cs_wait' = suspended.cs_wait /\ start_time' = suspended.start_time
    /\ response' = suspended.response /\ response_data' = suspended.response_data
    /\ updated_batches' = suspended.updated_batches
    /\ downloaded_data' = suspended.downloaded_data
    /\ merged_results' = suspended.merged_results
    /\ exported_files' = suspended.exported_files
    /\ lookup' = suspended.lookup /\ ret' = suspended.ret /\ exc' = suspended.exc
    /\ net' = suspended.net
    /\ request_id' = suspended.response.request_id
    /\ batch_results' = suspended.updated_batches
    /\ suspended' = [Running EXCEPT !.updated_batches = batch_results]
    /\ UNCHANGED <<_cache, _request_id_cache, env, ncalls, toolVars>>

\* the thread of another invocation runs: its locals replace those of the
\* invocation that ran; the fields of the client (lines 85-86, 108-112) and
\* the world stay as they are. download reads self.batch_results once, at
\* line 458, so no switch is followed between that and the fetches.
Switch ==
    /\ suspended.pc \notin {"idle", "returned", "raised"}
    /\ pc # "download_fetch"
    /\ pc' = suspended.pc /\ stack' = suspended.stack /\ call' = suspended.call
    /\ cs_wait' = suspended.cs_wait /\ start_time' = suspended.start_time
    /\ response' = suspended.response /\ response_data' = suspended.response_data
    /\ updated_batches' = suspended.updated_batches
    /\ downloaded_data' = suspended.downloaded_data
    /\ merged_results' = suspended.merged_results
    /\ exported_files' = suspended.exported_files
    /\ lookup' = suspended.lookup /\ ret' = suspended.ret /\ exc' = suspended.exc
    /\ net' = suspended.net
    /\ suspended' = Running
    /\ UNCHANGED <<fields, env, ncalls, toolVars>>

-----------------------------------------------------------------------------
(* The callers of the client and the world around it *)

\* no public call is running
Idle == pc \in {"idle", "returned", "raised"}

NoNet == [status |-> 0, download |-> 0, submit |-> 0]

\* a caller starts a public method
StartCall(c, limit) ==
    /\ Idle
    /\ ncalls < limit
    /\ ncalls' = ncalls + 1
    /\ call' = c
    /\ pc' = c.api
    /\ stack' = <<>>
    /\ ret' = NoValue
    /\ exc' = None
    /\ net' = NoNet
    /\ lookup' = None
    /\ downloaded_data' = <<>>
    /\ merged_results' = EmptyDict
    /\ exported_files' = EmptyDict
    /\ cs_wait' = (c.api = "check_status" /\ c.wait)
    /\ start_time' = 0
    /\ response_data' = NoResponse
    /\ updated_batches' = <<>>
    /\ response' = NoSubmitResponse
    /\ UNCHANGED <<outer, fields, env>>

\* time passes between two calls (what passes after the last is not followed)
Tick(d) ==
    /\ Idle /\ ncalls < MaxCalls
    /\ now + d <= CacheTTL + MaxSlack
    /\ now' = now + d
    /\ UNCHANGED <<outer, pc, stack, call, fields, csLocals, pdLocals, response, ret,
                   exc, disk, jobs, net, ncalls>>

\* somebody deletes an exported file
DeleteFile(path) ==
    /\ Idle /\ ncalls < MaxCalls
    /\ path \in DOMAIN disk
    /\ disk' = Del(disk, path)
    /\ UNCHANGED <<outer, pc, stack, call, fields, csLocals, pdLocals, response, ret,
                   exc, now, jobs, net, ncalls>>

-----------------------------------------------------------------------------
(* check_status called on a client that holds a request id *)

StatusIds == {1, 2}
StatusRanges(i) == {<<NoPage, NoPage>>, <<1, 5>>}
StatusShapes(i) == {Processing(i), CompletedWithUrl(i)}
StatusUniverse ==
    StatusResponses(JobStatuses,
                    BatchLists(BatchDicts(StatusIds, [i \in StatusIds |-> StatusRanges(i)],
                               [i \in StatusIds |-> StatusShapes(i)]),
                               Cardinality(StatusIds)))

PollIntervals == {1}
MaxWaits == {0, 1}

InitStatus ==
    /\ pc = "check_status"
    /\ stack = <<>>
    /\ call \in { [max_wait |-> m, poll_interval |-> p, wait |-> w, api |-> "check_status"] :
                    w \in BOOLEAN, p \in PollIntervals, m \in MaxWaits }
    /\ cs_wait = call.wait
    /\ request_id = JobId(1)
    /\ jobs = 1
    /\ batch_results = <<>>
    /\ _cache = EmptyDict
    /\ _request_id_cache = EmptyDict
    /\ start_time = 0
    /\ response = NoSubmitResponse
    /\ response_data = NoResponse
    /\ updated_batches = <<>>
    /\ downloaded_data = <<>>
    /\ merged_results = <<>>
    /\ exported_files = <<>>
    /\ lookup = None
    /\ ret = NoValue
    /\ exc = None
    /\ now = 0
    /\ disk = <<>>
    /\ net = NoNet
    /\ ncalls = 1
    /\ Alone
    /\ NoTool

NextStatus ==
    \/ CS_FirstGet(StatusUniverse)
    \/ CS_WaitSubmitted(StatusUniverse, 0..MaxJitter)
    \/ CS_ReadBatches
    \/ CS_WaitBatches(StatusUniverse, 0..MaxJitter)
    \/ CS_Return

SpecStatus == InitStatus /\ [][NextStatus]_vars

\* the thread that runs check_status keeps running
SpecStatusFair == SpecStatus /\ WF_vars(NextStatus)

\* a service that, once the batches are known, answers every poll of the
\* batch phase with a body that has no "batches"
NoListResponses == { StatusResponse(200, s, FALSE, <<>>) : s \in JobStatuses }

NextNoList ==
    \/ CS_FirstGet(StatusUniverse)
    \/ CS_WaitSubmitted(StatusUniverse, 0..MaxJitter)
    \/ CS_ReadBatches
    \/ CS_WaitBatches(NoListResponses, 0..MaxJitter)
    \/ CS_Return

SpecNoList == InitStatus /\ [][NextNoList]_vars

-----------------------------------------------------------------------------
(* check_status on a job whose batches are all completed: the returned list
   is the reconciliation of the list of the response *)

MaxBatches == 3
ReconcileIds == {1, 2, 3}
ReconcileRanges(i) == {<<1, 5>>, <<6, 10>>}
ReconcileShapes(i) == {CompletedWithUrl(i)}

\* the batch lists of at most MaxBatches entries, ids repeated or not, in any order
ReconcileLists ==
    UNION { [1..n -> BatchDicts(ReconcileIds, [i \in ReconcileIds |-> ReconcileRanges(i)],
                               [i \in ReconcileIds |-> ReconcileShapes(i)])] :
              n \in 0..MaxBatches }

ReconcileUniverse == StatusResponses({"completed"}, ReconcileLists)

NextReconcile ==
    \/ CS_FirstGet(ReconcileUniverse)
    \/ CS_ReadBatches
    \/ CS_Return

SpecReconcile == InitStatus /\ [][NextReconcile]_vars

-----------------------------------------------------------------------------
(* The client driven through process_document *)

\* the files a caller may name: stem of the name, content, whether it exists
File(stem, content, exists) == [content |-> content, exists |-> exists, stem |-> stem]
Files == {File("a", "X", TRUE), File("b", "X", TRUE), File("a", "Y", TRUE),
          File("m", None, FALSE)}

Formats == {"markdown", "html"}
FormatLists == {NoFormats, <<"markdown">>, <<"html", "markdown">>, <<"markdown", "html">>}

SubmitResponses(codes) ==
    { SubmitResponse(c, j) : c \in codes, j \in {JobId(jobs + 1), NoJob} }

\* the text of batch id in format fmt
Text(id, fmt) == << <<id, fmt>> >>

\* a downloaded payload: a "content" dict, if any, of format -> text
Payload(has_content, content) == [content |-> content, has_content |-> has_content]
Payloads(id) ==
    { Payload(TRUE, [f \in fs |-> Text(id, f)]) : fs \in {Formats, {"markdown"}} }

\* a call of process_document
ProcessDocument(file, wait, poll_interval, max_wait, export_formats) ==
    [max_wait |-> max_wait, poll_interval |-> poll_interval,
     export_formats |-> export_formats, file |-> file, wait |-> wait,
     api |-> "process_document"]

\* one call, of any file and format list, to a service of two batches
OnceIds == {1, 2}
OnceRanges(i) == IF i = 1 THEN {<<1, 5>>} ELSE {<<1, 5>>, <<6, 10>>}
OnceShapes(i) == IF i = 1 THEN {Processing(i), CompletedWithUrl(i)}
                 ELSE {CompletedWithUrl(i)}
OnceUniverse ==
    StatusResponses({"submitted", "processing"},
                    BatchLists(BatchDicts(OnceIds, [i \in OnceIds |-> OnceRanges(i)],
                               [i \in OnceIds |-> OnceShapes(i)]),
                               Cardinality(OnceIds)))
OnceCalls ==
    { ProcessDocument(f, w, 1, 1, e) : f \in Files, w \in BOOLEAN, e \in FormatLists }

\* several calls, of two files of the same name, to a service of one batch
CacheIds == {1}
CacheRanges(i) == {<<1, 5>>}
CacheUniverse ==
    StatusResponses({"submitted", "processing"},
                    AscendingLists(BatchDicts(CacheIds, [i \in CacheIds |-> CacheRanges(i)],
                               [i \in CacheIds |-> StatusShapes(i)]),
                                   Cardinality(CacheIds)))
CacheCalls ==
    { ProcessDocument(File("a", "X", TRUE), TRUE, 1, 0, NoFormats),
      ProcessDocument(File("a", "Y", TRUE), TRUE, 1, 0, NoFormats),
      ProcessDocument(File("a", "X", TRUE), TRUE, 1, 0, <<"markdown">>) }

Init ==
    /\ pc = "idle"
    /\ stack = <<>>
    /\ call = [api |-> None]
    /\ request_id = NoJob
    /\ jobs = 0
    /\ batch_results = <<>>
    /\ _cache = EmptyDict
    /\ _request_id_cache = EmptyDict
    /\ cs_wait = FALSE
    /\ start_time = 0
    /\ response = NoSubmitResponse
    /\ response_data = NoResponse
    /\ updated_batches = <<>>
    /\ downloaded_data = <<>>
    /\ merged_results = EmptyDict
    /\ exported_files = EmptyDict
    /\ lookup = None
    /\ ret = NoValue
    /\ exc = None
    /\ now = 0
    /\ disk = EmptyDict
    /\ net = NoNet
    /\ ncalls = 0
    /\ Alone
    /\ NoTool

Next ==
    \/ \E c \in CacheCalls : StartCall(c, MaxCalls)
    \/ \E d \in {CacheTTL - 1, CacheTTL} : Tick(d)
    \/ \E path \in DOMAIN disk : DeleteFile(path)
    \/ PD_Lookup
    \/ Request(SubmitResponses({202, 500}))
    \/ Request_Return
    \/ PD_Requested
    \/ CS_FirstGet(CacheUniverse)
    \/ CS_WaitSubmitted(CacheUniverse, {0})
    \/ CS_ReadBatches
    \/ CS_WaitBatches(CacheUniverse, {0})
    \/ CS_Return
    \/ PD_Download
    \/ Download_Enter
    \/ Download_Fetch([i \in CacheIds |-> Payloads(i)])
    \/ PD_Merge
    \/ Merge_Enter
    \/ Merge_Data
    \/ PD_Export
    \/ Export_Enter
    \/ Export_Write({{}, {"markdown"}})
    \/ PD_Store
    \/ PD_Except

Spec == Init /\ [][Next]_vars

-----------------------------------------------------------------------------
(* One call of process_document on a new client *)

\* every payload carries every format
OncePayloads(id) == { Payload(TRUE, [f \in Formats |-> Text(id, f)]) }

InitOnce ==
    /\ pc = "process_document"
    /\ stack = <<>>
    /\ call \in OnceCalls
    /\ request_id = NoJob
    /\ jobs = 0
    /\ batch_results = <<>>
    /\ _cache = EmptyDict
    /\ _request_id_cache = EmptyDict
    /\ cs_wait = FALSE
    /\ start_time = 0
    /\ response = NoSubmitResponse
    /\ response_data = NoResponse
    /\ updated_batches = <<>>
    /\ downloaded_data = <<>>
    /\ merged_results = EmptyDict
    /\ exported_files = EmptyDict
    /\ lookup = None
    /\ ret = NoValue
    /\ exc = None
    /\ now = 0
    /\ disk = EmptyDict
    /\ net = NoNet
    /\ ncalls = 1
    /\ Alone
    /\ NoTool

NextOnce ==
    \/ PD_Lookup
    \/ Request(SubmitResponses({200, 500}))
    \/ Request_Return
    \/ PD_Requested
    \/ CS_FirstGet(OnceUniverse)
    \/ CS_WaitSubmitted(OnceUniverse, {0})
    \/ CS_ReadBatches
    \/ CS_WaitBatches(OnceUniverse, {0})
    \/ CS_Return
    \/ PD_Download
    \/ Download_Enter
    \/ Download_Fetch([i \in OnceIds |-> OncePayloads(i)])
    \/ PD_Merge
    \/ Merge_Enter
    \/ Merge_Data
    \/ PD_Export
    \/ Export_Enter
    \/ Export_Write({{}, {"markdown"}})
    \/ PD_Store
    \/ PD_Except

SpecOnce == InitOnce /\ [][NextOnce]_vars

-----------------------------------------------------------------------------
(* Calls of process_document of one file with the formats in either order *)

FormatCalls ==
    { ProcessDocument(File("a", "X", TRUE), TRUE, 1, 0, e) :
        e \in {<<"markdown", "html">>, <<"html", "markdown">>} }

NextFormats ==
    \/ \E c \in FormatCalls : StartCall(c, MaxCalls)
    \/ PD_Lookup
    \/ Request(SubmitResponses({202, 500}))
    \/ Request_Return
    \/ PD_Requested
    \/ CS_FirstGet(CacheUniverse)
    \/ CS_WaitSubmitted(CacheUniverse, {0})
    \/ CS_ReadBatches
    \/ CS_WaitBatches(CacheUniverse, {0})
    \/ CS_Return
    \/ PD_Download
    \/ Download_Enter
    \/ Download_Fetch([i \in CacheIds |-> Payloads(i)])
    \/ PD_Merge
    \/ Merge_Enter
    \/ Merge_Data
    \/ PD_Export
    \/ Export_Enter
    \/ Export_Write({{}, {"markdown"}})
    \/ PD_Store
    \/ PD_Except

SpecFormats == Init /\ [][NextFormats]_vars

-----------------------------------------------------------------------------
(* download called on a client that holds a request id and a batch list *)

DownloadIds == {1, 2, 3}
DownloadRanges(i) == {<<i, i>>}
DownloadShapes(i) == {Processing(i), CompletedWithUrl(i), CompletedNoUrl(i)}

\* the batch lists check_status(wait=False) may have left in self.batch_results
DownloadLists ==
    BatchLists(BatchDicts(DownloadIds, [i \in DownloadIds |-> DownloadRanges(i)],
                          [i \in DownloadIds |-> DownloadShapes(i)]),
               Cardinality(DownloadIds))

DownloadUniverse == StatusResponses({"processing"}, DownloadLists)

InitDownload ==
    /\ pc = "download"
    /\ stack = <<>>
    /\ call = [api |-> "download"]
    /\ request_id = JobId(1)
    /\ jobs = 1
    /\ batch_results \in DownloadLists
    /\ _cache = EmptyDict
    /\ _request_id_cache = EmptyDict
    /\ cs_wait = FALSE
    /\ start_time = 0
    /\ response = NoSubmitResponse
    /\ response_data = NoResponse
    /\ updated_batches = <<>>
    /\ downloaded_data = <<>>
    /\ merged_results = EmptyDict
    /\ exported_files = EmptyDict
    /\ lookup = None
    /\ ret = NoValue
    /\ exc = None
    /\ now = 0
    /\ disk = EmptyDict
    /\ net = NoNet
    /\ ncalls = 1
    /\ Alone
    /\ NoTool

NextDownload ==
    \/ Download_Enter
    \/ CS_FirstGet(DownloadUniverse)
    \/ CS_ReadBatches
    \/ CS_Return
    \/ Download_Fetch([i \in DownloadIds |-> Payloads(i)])

SpecDownload == InitDownload /\ [][NextDownload]_vars

-----------------------------------------------------------------------------
(* merge_results called with a payload list, on a client that holds a request
   id and a completed batch *)

MaxPayloads == 3
MergeIds == {1, 2}

\* payloads with no "content", and with a content of any of the formats
MergePayloads ==
    {Payload(FALSE, EmptyDict)}
    \cup { Payload(TRUE, [f \in fs |-> Text(i, f)]) : fs \in SUBSET Formats, i \in MergeIds }

PayloadLists == UNION { [1..n -> MergePayloads] : n \in 0..MaxPayloads }

\* a call of merge_results
MergeResults(data) == [downloaded_data |-> data, api |-> "merge_results"]

InitMerge ==
    /\ pc = "merge_results"
    /\ stack = <<>>
    /\ call \in { MergeResults(d) : d \in PayloadLists }
    /\ downloaded_data = call.downloaded_data
    /\ request_id = JobId(1)
    /\ jobs = 1
    /\ batch_results = <<BatchResult(1, "completed", UrlOf(1), 1, 5)>>
    /\ _cache = EmptyDict
    /\ _request_id_cache = EmptyDict
    /\ cs_wait = FALSE
    /\ start_time = 0
    /\ response = NoSubmitResponse
    /\ response_data = NoResponse
    /\ updated_batches = <<>>
    /\ merged_results = EmptyDict
    /\ exported_files = EmptyDict
    /\ lookup = None
    /\ ret = NoValue
    /\ exc = None
    /\ now = 0
    /\ disk = EmptyDict
    /\ net = NoNet
    /\ ncalls = 1
    /\ Alone
    /\ NoTool

NextMerge ==
    \/ Merge_Enter
    \/ Download_Enter
    \/ Download_Fetch([i \in MergeIds |-> Payloads(i)])
    \/ Merge_Data

SpecMerge == InitMerge /\ [][NextMerge]_vars

-----------------------------------------------------------------------------
(* export called with a merged map and a list of formats, on a client that
   holds a request id and a completed batch; unwritable are the formats whose
   file cannot be written during the call *)

ExportNames == {"markdown", "html", "text"}

MergedMaps == { [f \in fs |-> [content |-> Text(1, f)]] : fs \in SUBSET ExportNames }

ExportLists == {NoFormats, <<>>, <<"markdown">>, <<"text">>, <<"html", "markdown">>,
                <<"markdown", "markdown">>, <<"pdf">>}

\* a call of export
Export(file, merged, formats, unwritable) ==
    [merged_results |-> merged, export_formats |-> formats, file |-> file,
     api |-> "export", unwritable |-> unwritable]

InitExport ==
    /\ pc = "export"
    /\ stack = <<>>
    /\ call \in { Export(File("a", "X", TRUE), m, e, u) :
                    m \in MergedMaps, e \in ExportLists, u \in SUBSET ExportNames }
    /\ merged_results = call.merged_results
    /\ downloaded_data = <<>>
    /\ request_id = JobId(1)
    /\ jobs = 1
    /\ batch_results = <<BatchResult(1, "completed", UrlOf(1), 1, 5)>>
    /\ _cache = EmptyDict
    /\ _request_id_cache = EmptyDict
    /\ cs_wait = FALSE
    /\ start_time = 0
    /\ response = NoSubmitResponse
    /\ response_data = NoResponse
    /\ updated_batches = <<>>
    /\ exported_files = EmptyDict
    /\ lookup = None
    /\ ret = NoValue
    /\ exc = None
    /\ now = 0
    /\ disk = EmptyDict
    /\ net = NoNet
    /\ ncalls = 1
    /\ Alone
    /\ NoTool

NextExport ==
    \/ Export_Enter
    \/ Merge_Enter
    \/ Download_Enter
    \/ Download_Fetch([i \in MergeIds |-> Payloads(i)])
    \/ Merge_Data
    \/ Export_Write({call.unwritable})

SpecExport == InitExport /\ [][NextExport]_vars

-----------------------------------------------------------------------------
(* Two process_document invocations, of two documents, on one client, with
   no lock around them. The service names the job of document d JobId(d),
   answers a status request for it with one completed batch of id d, and a
   fetch of that batch gives the markdown of document d. *)

SharedDocs == {1, 2}
SharedFile(d) == IF d = 1 THEN File("a", "X", TRUE) ELSE File("b", "Y", TRUE)
DocOf(file) == CHOOSE d \in SharedDocs : SharedFile(d) = file
SharedCall(d) == ProcessDocument(SharedFile(d), TRUE, 1, 0, <<"markdown">>)

\* the answer to the POST of a file
SharedSubmit(file) == { SubmitResponse(200, JobId(DocOf(file))) }

\* the answer to a status request for job id
SharedStatus(id) ==
    { StatusResponse(200, "completed", TRUE,
                     <<BatchResult(id[2], "completed", UrlOf(id[2]), 1, 5)>>) }

SharedPayloads(d) == { Payload(TRUE, [f \in {"markdown"} |-> Text(d, f)]) }

InitShared ==
    /\ pc = "process_document"
    /\ stack = <<>>
    /\ call = SharedCall(1)
    /\ suspended = Context("process_document", <<>>, SharedCall(2))
    /\ request_id = NoJob
    /\ jobs = 0
    /\ batch_results = <<>>
    /\ _cache = EmptyDict
    /\ _request_id_cache = EmptyDict
    /\ cs_wait = FALSE
    /\ start_time = 0
    /\ response = NoSubmitResponse
    /\ response_data = NoResponse
    /\ updated_batches = <<>>
    /\ downloaded_data = <<>>
    /\ merged_results = EmptyDict
    /\ exported_files = EmptyDict
    /\ lookup = None
    /\ ret = NoValue
    /\ exc = None
    /\ now = 0
    /\ disk = EmptyDict
    /\ net = NoNet
    /\ ncalls = 2
    /\ NoTool

NextShared ==
    \/ Switch
    \/ PD_Lookup
    \/ Request(SharedSubmit(call.file))
    \/ Request_Return
    \/ PD_Requested
    \/ CS_FirstGet(SharedStatus(request_id))
    \/ CS_ReadBatches
    \/ CS_Return
    \/ PD_Download
    \/ Download_Enter
    \/ Download_Fetch([d \in SharedDocs |-> SharedPayloads(d)])
    \/ PD_Merge
    \/ Merge_Enter
    \/ Merge_Data
    \/ PD_Export
    \/ Export_Enter
    \/ Export_Write({{}})
    \/ PD_Store
    \/ PD_Except

SpecShared == InitShared /\ [][NextShared]_vars

-----------------------------------------------------------------------------
(* process_document invocations, one after the other, of three documents of
   which two have the same file name and different contents. The service
   names the job of document d JobId(d), answers a status request for it with
   one completed batch of id d, and a fetch of that batch gives the markdown
   of document d. *)

StemDocs == {1, 2, 3}
StemFile(d) ==
    IF d = 1 THEN File("a", "X", TRUE)
    ELSE IF d = 2 THEN File("a", "Y", TRUE)
    ELSE File("b", "Z", TRUE)
StemDocOf(file) == CHOOSE d \in StemDocs : StemFile(d) = file
StemCall(d) == ProcessDocument(StemFile(d), TRUE, 1, 0, <<"markdown">>)

\* the answer to the POST of a file
StemSubmit(file) == { SubmitResponse(200, JobId(StemDocOf(file))) }

\* two runs and a call answered from the cache take three calls
NextStem ==
    \/ \E d \in StemDocs : StartCall(StemCall(d), MaxCalls + 1)
    \/ PD_Lookup
    \/ Request(StemSubmit(call.file))
    \/ Request_Return
    \/ PD_Requested
    \/ CS_FirstGet(SharedStatus(request_id))
    \/ CS_ReadBatches
    \/ CS_Return
    \/ PD_Download
    \/ Download_Enter
    \/ Download_Fetch([d \in StemDocs |-> SharedPayloads(d)])
    \/ PD_Merge
    \/ Merge_Enter
    \/ Merge_Data
    \/ PD_Export
    \/ Export_Enter
    \/ Export_Write({{}})
    \/ PD_Store
    \/ PD_Except

SpecStem == Init /\ [][NextStem]_vars

-----------------------------------------------------------------------------
(* Calls of convert_to_* on one client, of a service that has finished the
   job when it is first asked *)

ConvertIds == {1}
ConvertRanges(i) == {<<1, 5>>}
ConvertShapes(i) == {CompletedWithUrl(i), CompletedNoUrl(i)}
ConvertUniverse ==
    StatusResponses({"completed"},
                    AscendingLists(BatchDicts(ConvertIds,
                                              [i \in ConvertIds |-> ConvertRanges(i)],
                                              [i \in ConvertIds |-> ConvertShapes(i)]),
                                   Cardinality(ConvertIds)))

ConvertCalls ==
    { ConvertTo(f, file) : f \in ConvertFormats,
                           file \in {File("a", "X", TRUE), File("a", "X", FALSE)} }

NextConvert ==
    \/ \E c \in ConvertCalls : StartCall(c, MaxCalls)
    \/ Convert_Call
    \/ Convert_Read
    \/ Convert_Except
    \/ PD_Lookup
    \/ Request(SubmitResponses({200, 500}))
    \/ Request_Return
    \/ PD_Requested
    \/ CS_FirstGet(ConvertUniverse)
    \/ CS_ReadBatches
    \/ CS_Return
    \/ PD_Download
    \/ Download_Enter
    \/ Download_Fetch([i \in ConvertIds |-> Payloads(i)])
    \/ PD_Merge
    \/ Merge_Enter
    \/ Merge_Data
    \/ PD_Export
    \/ Export_Enter
    \/ Export_Write({{}, {"markdown"}})
    \/ PD_Store
    \/ PD_Except

SpecConvert == Init /\ [][NextConvert]_vars

-----------------------------------------------------------------------------
(* The tool: UpstageDocumentparseTool (upstage-documentparse.py) *)

\* hashlib.md5(file_content).hexdigest()
Md5(content) == <<"md5", content>>

\* cache_index.json, the copy of the uploaded file and the cached result,
\* all under cache_dir
IndexPath == <<<<"cache_index", "json">>, "">>
OriginalPath(content) == <<Md5(content), "">>
ResultPath(content, result_type) == <<Md5(content), result_type>>

\* _load_cache_index (lines 75-91): the JSON value of the index file, or an
\* empty dict if there is no file or reading it raises
LoadCacheIndex(files) ==
    IF IndexPath \notin DOMAIN files THEN EmptyIndex
    ELSE IF files[IndexPath].json = "invalid" THEN EmptyIndex
    ELSE files[IndexPath]

\* the messages of the tool
TextMessage(text) == [kind |-> "text", text |-> text]
BlobMessage(text) == [kind |-> "blob", text |-> text]
\* a fixed text, or a text made of the message of an exception
Notice(words) == << <<0, words>> >>
ErrorMessage(e) == TextMessage(Notice(e))

\* the format convert_to_* exports for a result type (lines 354-359)
ResultTypes == {"md", "html", "text"}
FormatOf(result_type) ==
    IF result_type = "md" THEN "markdown"
    ELSE IF result_type = "html" THEN "html"
    ELSE "text"

\* a call of _invoke: whether files and the API key are given, the content of
\* the first file, the parameters, what goes wrong around the tool during the
\* call, and the arguments convert_to_* will give to process_document
Invoke(files, api_key, content, result_type, as_file, faults) ==
    [max_wait |-> DefaultMaxWait, poll_interval |-> 1,
     export_formats |-> <<FormatOf(result_type)>>,
     file |-> File(Md5(content), content, TRUE), wait |-> TRUE, api |-> "_invoke",
     result_type |-> result_type, files |-> files, api_key |-> api_key,
     as_file |-> as_file, faults |-> faults]

\* f"{file_hash}_{result_type}_{as_file}"
ToolCacheKey == <<Md5(call.file.content), call.result_type, call.as_file>>

\* _return_result (lines 158-233): one blob of a known type, or one text
ReturnResult(result, return_type, as_file) ==
    IF as_file
    THEN IF return_type \in ResultTypes THEN <<BlobMessage(result)>> ELSE <<>>
    ELSE <<TextMessage(result)>>

\* the generator ends
Finish == pc' = "returned" /\ stack' = <<>>

\* lines 291-366: the checks, the download of the file, its copy, the cache
\* lookup and the call of convert_to_*
Invoke_Start ==
    /\ pc = "_invoke"
    /\ IF ~call.files
       THEN /\ yielded' = <<TextMessage(Notice("No files provided."))>>
            /\ Finish /\ UNCHANGED cache_files
       ELSE IF ~call.api_key
       THEN /\ yielded' = <<TextMessage(Notice("Missing upstage_api_key in credentials."))>>
            /\ Finish /\ UNCHANGED cache_files
       ELSE IF "download" \in call.faults
       THEN /\ yielded' = <<ErrorMessage("Error during file download")>>
            /\ Finish /\ UNCHANGED cache_files
       ELSE IF OriginalPath(call.file.content) \notin DOMAIN cache_files
               /\ "original" \in call.faults
       THEN /\ yielded' = <<ErrorMessage("OSError")>>
            /\ Finish /\ UNCHANGED cache_files
       ELSE /\ cache_files' = Put(cache_files, OriginalPath(call.file.content),
                                  <<call.file.content>>)
            /\ IF conversion_cache.json \notin {"object", "array"}
               THEN /\ yielded' = <<ErrorMessage("TypeError")>>
                    /\ Finish
               ELSE IF /\ ToolCacheKey \in conversion_cache.keys
                       /\ ResultPath(call.file.content, call.result_type) \in DOMAIN cache_files
                       /\ "read" \notin call.faults
               THEN /\ yielded' =
                         ReturnResult(cache_files[ResultPath(call.file.content,
                                                             call.result_type)],
                                      call.result_type, call.as_file)
                    /\ Finish
               ELSE IF call.result_type \notin ResultTypes
               THEN /\ yielded' = <<TextMessage(Notice("Unsupported result type"))>>
                    /\ Finish
               ELSE /\ CallMethod(ConvertApi(FormatOf(call.result_type)),
                                  "invoke_converted")
                    /\ yielded' = yielded
    /\ UNCHANGED <<suspended, conversion_cache, tool_results, call, fields, csLocals,
                   pdLocals, response, ret, exc, env, net, ncalls>>

\* lines 368-382: the result cache file and the index after a conversion
\* that returned result. open() empties the file before f.write(None) raises.
SavedFiles(result) ==
    LET path == ResultPath(call.file.content, call.result_type)
        written == IF "result" \in call.faults THEN cache_files
                   ELSE IF result = NoContent THEN Put(cache_files, path, <<>>)
                   ELSE Put(cache_files, path, result)
        indexed == "result" \notin call.faults /\ result # NoContent
                   /\ conversion_cache.json = "object"
    IN  IF indexed /\ "index" \notin call.faults
        THEN Put(written, IndexPath,
                 Index("object", conversion_cache.keys \cup {ToolCacheKey}))
        ELSE written

SavedIndex(result) ==
    IF "result" \notin call.faults /\ result # NoContent
       /\ conversion_cache.json = "object"
    THEN Index("object", conversion_cache.keys \cup {ToolCacheKey})
    ELSE conversion_cache

\* create_text_message(None), of the plugin SDK: a message without a text, or
\* a validation error, which the except clause of line 383 turns into a text
TextOfNone == { TextMessage(NoContent), ErrorMessage("ValidationError") }

\* lines 368-387: the result is cached and returned; with None for a result,
\* result.encode raises AttributeError, which line 383 turns into a text
Invoke_Converted ==
    /\ pc = "invoke_converted"
    /\ cache_files' = SavedFiles(tool_results)
    /\ conversion_cache' = SavedIndex(tool_results)
    /\ IF tool_results # NoContent
       THEN yielded' = yielded \o ReturnResult(tool_results, call.result_type, call.as_file)
       ELSE IF call.as_file
       THEN yielded' = yielded \o <<ErrorMessage("AttributeError")>>
       ELSE \E m \in TextOfNone : yielded' = yielded \o <<m>>
    /\ Finish
    /\ UNCHANGED <<suspended, tool_results, call, fields, csLocals, pdLocals, response,
                   ret, exc, env, net, ncalls>>

\* the plugin host invokes the tool
StartInvoke(c, limit) ==
    /\ Idle
    /\ ncalls < limit
    /\ ncalls' = ncalls + 1
    /\ call' = c
    /\ pc' = c.api
    /\ stack' = <<>>
    /\ ret' = NoValue
    /\ exc' = None
    /\ net' = NoNet
    /\ lookup' = None
    /\ downloaded_data' = <<>>
    /\ merged_results' = EmptyDict
    /\ exported_files' = EmptyDict
    /\ cs_wait' = FALSE
    /\ start_time' = 0
    /\ response_data' = NoResponse
    /\ updated_batches' = <<>>
    /\ response' = NoSubmitResponse
    /\ yielded' = <<>>
    /\ tool_results' = NoContent
    /\ UNCHANGED <<suspended, conversion_cache, cache_files, fields, env>>

-----------------------------------------------------------------------------
(* Invocations of the tool, with one client, of a service that has finished
   the job when it is first asked *)

\* what the host finds in cache_index.json when the tool is constructed:
\* no file, a file that is not JSON, or a JSON value of some type
IndexFiles ==
    {EmptyDict} \cup
    { [p \in {IndexPath} |-> Index(j, {})] : j \in {"invalid", "object", "array", "null"} }

\* what may go wrong around the tool during a call: nothing, or one of the
\* download of the file, the write of its copy, the read of the cached
\* result, the write of the cached result, the write of the index
Faults == {{}} \cup { {x} : x \in {"download", "original", "read", "result", "index"} }

InvokeCalls ==
    { Invoke(FALSE, TRUE, "X", "md", FALSE, {}), Invoke(TRUE, FALSE, "X", "md", FALSE, {}) }
    \cup { Invoke(TRUE, TRUE, "X", t, a, x) :
             t \in {"md", "pdf"}, a \in BOOLEAN, x \in Faults }

\* the service answers a poll with an error or with the one finished batch
ToolUniverse ==
    { ErrorResponse,
      StatusResponse(200, "completed", TRUE,
                     <<BatchResult(1, "completed", UrlOf(1), 1, 5)>>) }

ToolPayloads(id) == { Payload(TRUE, [f \in {"markdown"} |-> Text(id, f)]) }

InitTool ==
    /\ pc = "idle"
    /\ stack = <<>>
    /\ call = [api |-> None]
    /\ request_id = NoJob
    /\ jobs = 0
    /\ batch_results = <<>>
    /\ _cache = EmptyDict
    /\ _request_id_cache = EmptyDict
    /\ cs_wait = FALSE
    /\ start_time = 0
    /\ response = NoSubmitResponse
    /\ response_data = NoResponse
    /\ updated_batches = <<>>
    /\ downloaded_data = <<>>
    /\ merged_results = EmptyDict
    /\ exported_files = EmptyDict
    /\ lookup = None
    /\ ret = NoValue
    /\ exc = None
    /\ now = 0
    /\ disk = EmptyDict
    /\ net = NoNet
    /\ ncalls = 0
    /\ Alone
    /\ cache_files \in IndexFiles
    /\ conversion_cache = LoadCacheIndex(cache_files)
    /\ tool_results = NoContent
    /\ yielded = <<>>

NextTool ==
    \/ \E c \in InvokeCalls : StartInvoke(c, MaxCalls)
    \/ Invoke_Start
    \/ Invoke_Converted
    \/ Convert_Call
    \/ Convert_Read
    \/ Convert_Except
    \/ PD_Lookup
    \/ Request(SubmitResponses({200, 500}))
    \/ Request_Return
    \/ PD_Requested
    \/ CS_FirstGet(ToolUniverse)
    \/ CS_ReadBatches
    \/ CS_Return
    \/ PD_Download
    \/ Download_Enter
    \/ Download_Fetch([i \in ConvertIds |-> ToolPayloads(i)])
    \/ PD_Merge
    \/ Merge_Enter
    \/ Merge_Data
    \/ PD_Export
    \/ Export_Enter
    \/ Export_Write({{}, {"markdown"}})
    \/ PD_Store
    \/ PD_Except

SpecTool == InitTool /\ [][NextTool]_vars

-----------------------------------------------------------------------------
(* Invocations of the tool for one file, as text or as file, an hour or more
   apart or not *)

AgedCalls ==
    { Invoke(TRUE, TRUE, "X", "md", a, x) : a \in BOOLEAN, x \in {{}, {"read"}} }

\* the entries of the process cache of the client expire between two
\* invocations
Expire ==
    /\ Idle /\ 0 < ncalls /\ ncalls <= MaxCalls
    /\ now < CacheTTL
    /\ now' = now + CacheTTL
    /\ UNCHANGED <<outer, pc, stack, call, fields, csLocals, pdLocals, response, ret,
                   exc, disk, jobs, net, ncalls>>

\* a conversion, a failed conversion and an answer from the cache take three
\* invocations
NextAged ==
    \/ \E c \in AgedCalls : StartInvoke(c, MaxCalls + 1)
    \/ Expire
    \/ Invoke_Start
    \/ Invoke_Converted
    \/ Convert_Call
    \/ Convert_Read
    \/ Convert_Except
    \/ PD_Lookup
    \/ Request(SubmitResponses({200, 500}))
    \/ Request_Return
    \/ PD_Requested
    \/ CS_FirstGet(ToolUniverse)
    \/ CS_ReadBatches
    \/ CS_Return
    \/ PD_Download
    \/ Download_Enter
    \/ Download_Fetch([i \in ConvertIds |-> ToolPayloads(i)])
    \/ PD_Merge
    \/ Merge_Enter
    \/ Merge_Data
    \/ PD_Export
    \/ Export_Enter
    \/ Export_Write({{}})
    \/ PD_Store
    \/ PD_Except

SpecAged == InitTool /\ [][NextAged]_vars

-----------------------------------------------------------------------------
(* The client driven through request *)

\* a call of request
RequestCall(file, wait, poll_interval, max_wait) ==
    [max_wait |-> max_wait, poll_interval |-> poll_interval, file |-> file,
     wait |-> wait, api |-> "request"]

RequestCalls == { RequestCall(f, w, 1, 0) : f \in Files, w \in BOOLEAN }

\* the status codes the POST is answered with
SubmitCodes == {200, 201, 202, 404, 500}

NextRequest ==
    \/ \E c \in RequestCalls : StartCall(c, MaxCalls)
    \/ Request(SubmitResponses(SubmitCodes))
    \/ Request_Return
    \/ CS_FirstGet(CacheUniverse)
    \/ CS_WaitSubmitted(CacheUniverse, {0})
    \/ CS_ReadBatches
    \/ CS_WaitBatches(CacheUniverse, {0})
    \/ CS_Return

SpecRequest == Init /\ [][NextRequest]_vars

-----------------------------------------------------------------------------
(* One client used through request, check_status, download and
   process_document, one call after the other *)

\* a call of check_status, and one of download, with no request id given
CheckStatus(wait, poll_interval, max_wait) ==
    [max_wait |-> max_wait, poll_interval |-> poll_interval, wait |-> wait,
     api |-> "check_status"]
Download == [api |-> "download"]

\* two files of the same bytes under different names, a file of other bytes
\* under the name of the first, and a file that is not there
MixedFiles == {File("a", "X", TRUE), File("b", "X", TRUE), File("a", "Y", TRUE),
               File("m", None, FALSE)}

MixedCalls ==
    { RequestCall(f, w, 1, 0) : f \in MixedFiles, w \in BOOLEAN }
    \cup { ProcessDocument(f, w, 1, 0, e) :
               f \in MixedFiles, w \in BOOLEAN, e \in {<<"markdown">>, <<"html">>} }
    \cup { CheckStatus(w, 1, 0) : w \in BOOLEAN }
    \cup { Download }

\* the service answers a poll with an error, a job still submitted, a failed
\* job without batches, or its one batch, in processing or completed
MixedUniverse ==
    { ErrorResponse,
      StatusResponse(200, "submitted", FALSE, <<>>),
      StatusResponse(200, "failed", FALSE, <<>>),
      StatusResponse(200, "processing", TRUE,
                     <<BatchResult(1, "processing", NoUrl, 1, 5)>>),
      StatusResponse(200, "completed", TRUE,
                     <<BatchResult(1, "completed", UrlOf(1), 1, 5)>>) }

\* a payload with the markdown of the batch, or with no "content"
MixedPayloads(id) ==
    { Payload(TRUE, [f \in {"markdown"} |-> Text(id, f)]), Payload(FALSE, EmptyDict) }

NextMixed ==
    \/ \E c \in MixedCalls : StartCall(c, MaxCalls)
    \/ PD_Lookup
    \/ Request(SubmitResponses({200, 500}))
    \/ Request_Return
    \/ PD_Requested
    \/ CS_FirstGet(MixedUniverse)
    \/ CS_WaitSubmitted(MixedUniverse, {0})
    \/ CS_ReadBatches
    \/ CS_WaitBatches(MixedUniverse, {0})
    \/ CS_Return
    \/ PD_Download
    \/ Download_Enter
    \/ Download_Fetch([i \in {1} |-> MixedPayloads(i)])
    \/ PD_Merge
    \/ Merge_Enter
    \/ Merge_Data
    \/ PD_Export
    \/ Export_Enter
    \/ Export_Write({{}})
    \/ PD_Store
    \/ PD_Except

SpecMixed == Init /\ [][NextMixed]_vars

-----------------------------------------------------------------------------
(* The same process_document call made twice, with wait=True and with
   wait=False, on clients in the same state, of a service that behaves the
   same way both times. The service follows a script: the status code of
   its answer to the POST, its answers to the status requests of a call in
   order (the last one repeated), and whether fetches succeed. *)

MaxPolls == 3

TwinPolls ==
    { ErrorResponse,
      StatusResponse(200, "submitted", FALSE, <<>>),
      StatusResponse(200, "completed", TRUE, <<>>),
      StatusResponse(200, "processing", TRUE,
                     <<BatchResult(1, "processing", NoUrl, 1, 5)>>),
      StatusResponse(200, "completed", TRUE,
                     <<BatchResult(1, "completed", UrlOf(1), 1, 5)>>) }

Scripts == { <<c, p, f>> : c \in {200, 500}, p \in [1..MaxPolls -> TwinPolls],
                           f \in BOOLEAN }

\* suspended holds the experiment: its stage, the script, the state of the
\* client and of its surroundings before the first call, and what the first
\* call left
Script == suspended[2]
Baseline == <<request_id, batch_results, _cache, _request_id_cache, now, disk, jobs>>
Outcome == <<pc, ret, exc, net, request_id, batch_results, _cache,
             _request_id_cache, now, disk, jobs>>

ScriptedSubmit == { SubmitResponse(Script[1], JobId(jobs + 1)) }
ScriptedPoll ==
    { Script[2][IF net.status < MaxPolls THEN net.status + 1 ELSE MaxPolls] }

TwinFile == File("a", "X", TRUE)

\* the locals of a call that starts
FreshLocals ==
    /\ stack' = <<>>
    /\ ret' = NoValue
    /\ exc' = None
    /\ net' = NoNet
    /\ lookup' = None
    /\ downloaded_data' = <<>>
    /\ merged_results' = EmptyDict
    /\ exported_files' = EmptyDict
    /\ cs_wait' = FALSE
    /\ start_time' = 0
    /\ response_data' = NoResponse
    /\ updated_batches' = <<>>
    /\ response' = NoSubmitResponse

\* the call with wait=True, on the client as it is
TwinFirst ==
    /\ Idle /\ suspended[1] = "none"
    /\ \E m \in {0, 1} :
          call' = ProcessDocument(TwinFile, TRUE, 1, m, <<"markdown">>)
    /\ pc' = "process_document"
    /\ ncalls' = ncalls + 1
    /\ FreshLocals
    /\ suspended' = <<"first", Script, Baseline, <<>>>>
    /\ UNCHANGED <<toolVars, fields, env>>

\* the call with wait=False, on a client and surroundings put back into the
\* state they were in before the first call
TwinSecond ==
    /\ Idle /\ suspended[1] = "first"
    /\ call' = [call EXCEPT !.wait = FALSE]
    /\ pc' = "process_document"
    /\ ncalls' = ncalls + 1
    /\ FreshLocals
    /\ suspended' = <<"second", Script, suspended[3], Outcome>>
    /\ request_id' = suspended[3][1]
    /\ batch_results' = suspended[3][2]
    /\ _cache' = suspended[3][3]
    /\ _request_id_cache' = suspended[3][4]
    /\ now' = suspended[3][5]
    /\ disk' = suspended[3][6]
    /\ jobs' = suspended[3][7]
    /\ UNCHANGED toolVars

\* the fetches of a call succeed or fail as the script says
ScriptedFetch ==
    /\ Download_Fetch([i \in {1} |-> SharedPayloads(i)])
    /\ IF Script[3] \/ ToFetch(batch_results) = <<>>
       THEN exc' = exc
       ELSE exc' = "HTTPError"

InitTwin ==
    /\ pc = "idle"
    /\ stack = <<>>
    /\ call = [api |-> None]
    /\ request_id = NoJob
    /\ jobs = 0
    /\ batch_results = <<>>
    /\ _cache = EmptyDict
    /\ _request_id_cache = EmptyDict
    /\ cs_wait = FALSE
    /\ start_time = 0
    /\ response = NoSubmitResponse
    /\ response_data = NoResponse
    /\ updated_batches = <<>>
    /\ downloaded_data = <<>>
    /\ merged_results = EmptyDict
    /\ exported_files = EmptyDict
    /\ lookup = None
    /\ ret = NoValue
    /\ exc = None
    /\ now = 0
    /\ disk = EmptyDict
    /\ net = NoNet
    /\ ncalls = 0
    /\ suspended \in { <<"none", s, <<>>, <<>>>> : s \in Scripts }
    /\ NoTool

\* before the two calls the client may have been used for a request
NextTwin ==
    \/ \E w \in BOOLEAN :
          suspended[1] = "none" /\ StartCall(RequestCall(TwinFile, w, 1, 1), 1)
    \/ TwinFirst
    \/ TwinSecond
    \/ PD_Lookup
    \/ Request(ScriptedSubmit)
    \/ Request_Return
    \/ PD_Requested
    \/ CS_FirstGet(ScriptedPoll)
    \/ CS_WaitSubmitted(ScriptedPoll, {0})
    \/ CS_ReadBatches
    \/ CS_WaitBatches(ScriptedPoll, {0})
    \/ CS_Return
    \/ PD_Download
    \/ Download_Enter
    \/ ScriptedFetch
    \/ PD_Merge
    \/ Merge_Enter
    \/ Merge_Data
    \/ PD_Export
    \/ Export_Enter
    \/ Export_Write({{}})
    \/ PD_Store
    \/ PD_Except

SpecTwin == InitTwin /\ [][NextTwin]_vars

-----------------------------------------------------------------------------
(* Properties of the result cache of process_document *)

\* process_document is about to look its key up
AtLookup == pc = "process_document" /\ call.file.exists

\* C1: a process_document call that finds an entry for its key, younger than
\* the TTL and with every path of its map still on disk, returns that map at
\* once: no request is sent and the cache is left as it is.
C1_CacheHitNoNetwork ==
    [][ ( /\ AtLookup
          /\ CacheKey \in DOMAIN _cache
          /\ \A f \in DOMAIN _cache[CacheKey].result :
                _cache[CacheKey].result[f] \in DOMAIN disk
          /\ now - _cache[CacheKey].timestamp < CacheTTL )
        => ( /\ pc' = "returned"
             /\ ret' = _cache[CacheKey].result
             /\ net' = NoNet
             /\ _cache' = _cache
             /\ disk' = disk ) ]_vars

\* a second call answered from the cache, one second before the entry expires
C1_Witness ==
    /\ pc = "returned" /\ lookup = "hit" /\ ncalls = 2
    /\ DOMAIN ret # {}
    /\ now - _cache[CacheKey].timestamp = CacheTTL - 1

\* C2: a call that finds an entry with a path missing on disk evicts the entry,
\* whatever its age, and goes on to request; at its return it has polled,
\* and the map it returns is the one exported by this run, whose files hold
\* the content merged by this run.
C2_DeletedFileInvalidates ==
    /\ [][ ( /\ AtLookup
             /\ CacheKey \in DOMAIN _cache
             /\ \E f \in DOMAIN _cache[CacheKey].result :
                   _cache[CacheKey].result[f] \notin DOMAIN disk )
           => ( /\ CacheKey \notin DOMAIN _cache'
                /\ pc' = "request"
                /\ ret' = NoValue ) ]_vars
    /\ [][ (pc # "returned" /\ pc' = "returned" /\ lookup = "deleted")
           => ( /\ net'.status >= 1
                /\ ret' = exported_files
                /\ \A f \in DOMAIN ret' :
                      /\ ret'[f] \in DOMAIN disk'
                      /\ disk'[ret'[f]] = merged_results[f].content ) ]_vars

\* a call that found a file of its entry deleted and exported again
C2_Witness ==
    /\ pc = "returned" /\ lookup = "deleted"
    /\ DOMAIN ret # {}

\* C3: a call that finds an entry whose age has reached the TTL evicts it and
\* goes on to request; at its return the entry of its key holds the map it
\* returns, stamped with the time of the return.
C3_ExpiredEntryEvicted ==
    /\ [][ ( /\ AtLookup
             /\ CacheKey \in DOMAIN _cache
             /\ now - _cache[CacheKey].timestamp >= CacheTTL )
           => ( /\ CacheKey \notin DOMAIN _cache'
                /\ pc' = "request"
                /\ ret' = NoValue ) ]_vars
    /\ [][ (pc # "returned" /\ pc' = "returned" /\ lookup = "expired")
           => ( /\ CacheKey \in DOMAIN _cache'
                /\ _cache'[CacheKey].timestamp = now'
                /\ _cache'[CacheKey].result = ret'
                /\ net'.status >= 1 ) ]_vars

\* a call that found its entry expired, with its files in place, and returned
C3_Witness ==
    /\ pc = "returned" /\ lookup = "expired"
    /\ DOMAIN ret # {}

-----------------------------------------------------------------------------
(* Properties of request *)

\* request is about to look the hash of its file up
AtRequest == pc = "request" /\ call.file.exists

\* the request id cached for the content of the file of the call
CachedId == _request_id_cache[Sha256(call.file.content)]

\* C4, as claimed: a request call that returns without having submitted (its
\* file's content was submitted before) has made no network call at all.
C4_Original ==
    (call.api = "request" /\ pc = "returned" /\ net.submit = 0) => net = NoNet

\* C4, amended: a request for content submitted before sends no POST, creates
\* no job and takes the cached id, and with wait false it returns at once with
\* no network call; a request for content not submitted before sends exactly
\* one POST; a request that returns, returns the id cached for the content.
C4_RequestDedup ==
    /\ [][ (AtRequest /\ Sha256(call.file.content) \in DOMAIN _request_id_cache)
           => ( /\ net' = net
                /\ jobs' = jobs
                /\ _request_id_cache' = _request_id_cache
                /\ request_id' = CachedId
                /\ ~call.wait => (pc' = "returned" /\ ret' = CachedId /\ net' = NoNet) ) ]_vars
    /\ [][ (AtRequest /\ Sha256(call.file.content) \notin DOMAIN _request_id_cache)
           => net'.submit = 1 ]_vars
    /\ []( (call.api = "request" /\ pc = "returned")
           => ( /\ Sha256(call.file.content) \in DOMAIN _request_id_cache
                /\ ret = CachedId
                /\ net.submit <= 1
                /\ net.download = 0
                /\ ~call.wait => net.status = 0 ) )

\* a second request, of a file of another name and the same content, that
\* returned the first job's id with no network call
C4_Witness ==
    /\ call.api = "request" /\ pc = "returned" /\ ncalls = 2
    /\ call.file.stem = "b"
    /\ net = NoNet /\ jobs = 1 /\ ret = JobId(1)

\* C5, as claimed: once the POST is answered, the request id is recorded
\* exactly when the status is 200 or 202 and the body has a request_id;
\* otherwise the call has failed and nothing is recorded.
C5_Original ==
    (call.api = "request" /\ response.code # 0)
    => IF response.code \in {200, 202} /\ response.request_id # NoJob
       THEN /\ Sha256(call.file.content) \in DOMAIN _request_id_cache
            /\ request_id = response.request_id
       ELSE /\ pc = "raised"
            /\ Sha256(call.file.content) \notin DOMAIN _request_id_cache

-----------------------------------------------------------------------------
(* Properties of check_status *)

\* check_status is in its loop on the job status "submitted"
WaitingSubmitted ==
    pc = "cs_submitted" /\ cs_wait /\ response_data.status = "submitted"

\* some status response did not report the job as submitted
NotSubmitted ==
    \/ response_data.status \notin {None, "submitted"}
    \/ pc = "raised" /\ exc = "HTTPError"

\* C6: check_status(wait=True) whose every status response reports the job
\* as submitted ends with TimeoutError; it raises it only when the elapsed
\* time is above max_wait, it polls no more than one sleep past the budget,
\* and a check_status(wait=True) that returns has seen another job status.
C6_SubmittedTimesOut ==
    /\ <>( ~cs_wait \/ NotSubmitted \/ (pc = "raised" /\ exc = "TimeoutError") )
    /\ []( (pc = "raised" /\ exc = "TimeoutError" /\ cs_wait
            /\ response_data.status = "submitted")
           => now - start_time > call.max_wait )
    /\ []( (cs_wait /\ response_data.status = "submitted")
           => /\ now - start_time <= call.max_wait + call.poll_interval + MaxJitter
              /\ net.status * call.poll_interval
                   <= call.max_wait + 2 * call.poll_interval )
    /\ []( (pc = "returned" /\ cs_wait) => response_data.status # "submitted" )

\* the job was submitted at every poll, the last one past the budget
C6_Witness ==
    /\ pc = "raised" /\ exc = "TimeoutError" /\ cs_wait
    /\ response_data.status = "submitted"
    /\ net.status >= 2
    /\ batch_results = <<>>

\* the batches of the last status response that had a batch list
Reported ==
    IF updated_batches # <<>> THEN updated_batches ELSE response_data.batches

\* C7, as claimed: check_status(wait=True) returns only when every batch the
\* service reported in its last response is completed.
C7_Original ==
    (pc = "returned" /\ cs_wait) => AllCompleted(Reported)

\* C8, as claimed: once the service has reported the job as failed, a waiting
\* check_status neither returns a batch list nor raises TimeoutError.
C8_Original ==
    (cs_wait /\ response_data.status = "failed")
    => (pc # "returned" /\ ~(pc = "raised" /\ exc = "TimeoutError"))

\* C9, as claimed: in the loop on the batches, every batch of the last
\* status response is in the tracked list.
C9_Original ==
    pc = "cs_batches"
    => \A k \in DOMAIN updated_batches :
          \E m \in DOMAIN batch_results : batch_results[m].id = updated_batches[k].id

\* the entries of a batch list that have the page range of entry b
SameRange(batches, b) ==
    { k \in DOMAIN batches : PageKey(batches[k]) = PageKey(b) }

\* C10: where the tracked list has two entries of one page range and
\* different ids, the list check_status returns has exactly one entry of that
\* range, and its id is the greatest id of the entries of that range (of two
\* entries, the one with the larger id).
C10_LargerIdWins ==
    [][ (pc = "cs_batches" /\ pc' = "returned")
        => \A i, j \in DOMAIN batch_results :
              ( /\ PageKey(batch_results[i]) = PageKey(batch_results[j])
                /\ batch_results[i].id < batch_results[j].id )
              => /\ Cardinality(SameRange(ret', batch_results[i])) = 1
                 /\ \A k \in SameRange(ret', batch_results[i]) :
                       /\ ret'[k].id >= batch_results[j].id
                       /\ \E m \in SameRange(batch_results, batch_results[i]) :
                             batch_results[m] = ret'[k]
                       /\ \A m \in SameRange(batch_results, batch_results[i]) :
                             batch_results[m].id <= ret'[k].id ]_vars

\* the response listed the larger id first, then the smaller one of the same
\* range, then a batch of another range
C10_Witness ==
    /\ pc = "returned"
    /\ Len(response_data.batches) = 3
    /\ response_data.batches[1].id = 2 /\ response_data.batches[2].id = 1
    /\ PageKey(response_data.batches[1]) = PageKey(response_data.batches[2])
    /\ PageKey(response_data.batches[3]) # PageKey(response_data.batches[1])
    /\ Len(ret) = 2

-----------------------------------------------------------------------------
(* Properties of the reconciled list *)

\* C11: at every return of check_status the list it returns is
\* self.batch_results; each of its elements is an element of the list that
\* went into the reconciliation, no two have the same page range, every page
\* range of that list has exactly one element, the ids ascend, and an empty
\* list gives an empty list.
C11_ReconciledList ==
    [][ (pc = "cs_batches" /\ pc' = "returned")
        => /\ ret' = batch_results'
           /\ \A k \in DOMAIN ret' : \E m \in DOMAIN batch_results :
                 batch_results[m] = ret'[k]
           /\ \A k, m \in DOMAIN ret' :
                 k # m => PageKey(ret'[k]) # PageKey(ret'[m])
           /\ \A m \in DOMAIN batch_results :
                 Cardinality(SameRange(ret', batch_results[m])) = 1
           /\ \A k, m \in DOMAIN ret' : k < m => ret'[k].id <= ret'[m].id
           /\ (batch_results = <<>> => ret' = <<>>) ]_vars

\* three batches of two page ranges came in descending id order and two are left
C11_Witness ==
    /\ pc = "returned"
    /\ Len(response_data.batches) = 3
    /\ response_data.batches[1].id = 3 /\ response_data.batches[2].id = 2
    /\ response_data.batches[3].id = 1
    /\ PageKey(response_data.batches[1]) # PageKey(response_data.batches[2])
    /\ PageKey(response_data.batches[3]) = PageKey(response_data.batches[1])
    /\ Len(ret) = 2 /\ ret[1].id = 2 /\ ret[2].id = 3

-----------------------------------------------------------------------------
(* Properties of the exported document *)

\* the texts of format fmt of the batches of a list, in list order
RECURSIVE TextsOf(_, _)
TextsOf(batches, fmt) ==
    IF batches = <<>> THEN <<>>
    ELSE <<Text(Head(batches).id, fmt)>> \o TextsOf(Tail(batches), fmt)

\* process_document is about to store and return the files of a run in
\* which every batch of the list was completed with a download URL
ReturnsDocumentOf(batches) ==
    /\ pc = "pd_store" /\ pc' = "returned"
    /\ \A k \in DOMAIN batches : Downloadable(batches[k])

\* C12, as claimed: when every batch the service reported for the job is
\* completed, each exported file holds the texts of the survivors of the
\* reconciliation of the reported batches, in ascending id order, joined by
\* blank lines, and nothing of a superseded batch.
C12_Original ==
    [][ ReturnsDocumentOf(Reported)
        => \A f \in DOMAIN ret' :
              disk'[ret'[f]] = Join(BlankLine, TextsOf(Reconcile(Reported), f)) ]_vars

\* C12 for the batches check_status tracked: each exported file holds the
\* texts of the reconciled list check_status returned, in its order.
C12_TrackedContent ==
    [][ ReturnsDocumentOf(batch_results)
        => \A f \in DOMAIN ret' :
              disk'[ret'[f]] = Join(BlankLine, TextsOf(batch_results, f)) ]_vars

-----------------------------------------------------------------------------
(* Properties of the cache key *)

\* C13, as claimed: calls of process_document with the same file bytes and
\* format lists that are permutations of each other use one key, so the
\* ProcessCache never holds two entries for them.
C13_Original ==
    (\A c \in FormatCalls :
        /\ c.file.content = "X"
        /\ {c.export_formats[i] : i \in DOMAIN c.export_formats} = Formats)
    => Cardinality(DOMAIN _cache) <= 1

-----------------------------------------------------------------------------
(* Properties of download *)

\* the positions of the batches that are completed and have a download URL
Fetchable(batches) ==
    { k \in DOMAIN batches :
        batches[k].status = "completed" /\ batches[k].download_url # NoUrl }

\* the payload is one of the batch: its texts carry the id of the batch
PayloadOf(data, batch) ==
    /\ data.has_content
    /\ \A f \in DOMAIN data.content : data.content[f] = Text(batch.id, f)

\* C14: the fetches of download send no more requests than there are batches
\* completed with a download URL; a download that raises there has sent a
\* request and raises the error of a fetch, so with nothing to fetch it
\* returns the empty list; a download that returns has sent one request per
\* such batch and returns their payloads, in list order, and nothing for
\* the other batches.
C14_DownloadSkips ==
    [][ pc = "download_fetch"
        => LET n == Cardinality(Fetchable(batch_results))
               sent == net'.download - net.download
           IN /\ sent <= n
              /\ pc' = "raised"
                   => (sent >= 1 /\ exc' \in {"HTTPError", "JSONDecodeError"})
              /\ pc' # "raised"
                   => /\ pc' = "returned" /\ sent = n
                      /\ Len(ret') = n
                      /\ \A k \in DOMAIN ret' :
                            \E m \in Fetchable(batch_results) :
                               /\ PayloadOf(ret'[k], batch_results[m])
                               /\ Cardinality({j \in Fetchable(batch_results) : j < m}) = k - 1
         ]_vars

\* of a batch in processing, a completed one with no URL and a completed one
\* with a URL, the one payload came back
C14_Witness ==
    /\ pc = "returned" /\ Len(batch_results) = 3
    /\ batch_results[1].status = "processing"
    /\ batch_results[2] = BatchResult(3, "completed", NoUrl, 3, 3)
    /\ batch_results[3] = BatchResult(1, "completed", UrlOf(1), 1, 1)
    /\ Len(ret) = 1 /\ PayloadOf(ret[1], batch_results[3])
    /\ net.download = 1

\* C15: a fetch of download that fails raises HTTPError or JSONDecodeError
\* out of process_document and leaves the files and the ProcessCache as they
\* were; download goes on only with one payload per request sent; and a
\* process_document that has raised has exported no file, returned nothing
\* and cached nothing.
C15_DownloadFailureAborts ==
    /\ [][ pc = "download_fetch"
           => IF pc' = "pd_except"
              THEN /\ exc' \in {"HTTPError", "JSONDecodeError"}
                   /\ stack' = <<>>
                   /\ net'.download > net.download
                   /\ disk' = disk /\ _cache' = _cache
                   /\ exported_files' = EmptyDict
              ELSE /\ exc' = None
                   /\ Len(downloaded_data') = net'.download - net.download
                   /\ Len(downloaded_data') = Cardinality(Fetchable(batch_results))
         ]_vars
    /\ [][ pc = "pd_except" => (pc' = "raised" /\ exc' = exc) ]_vars
    /\ []( pc = "raised"
           => /\ disk = EmptyDict /\ exported_files = EmptyDict
              /\ _cache = EmptyDict /\ ret = NoValue )

\* the fetch of the second batch failed after the first had succeeded
C15_Witness ==
    /\ call.api = "process_document"
    /\ pc = "raised" /\ exc = "JSONDecodeError"
    /\ Len(batch_results) = 2 /\ net.download = 2
    /\ disk = EmptyDict /\ ret = NoValue

-----------------------------------------------------------------------------
(* Properties of merge_results *)

\* the positions of the payloads that carry format fmt
Carriers(data, fmt) ==
    { k \in DOMAIN data : data[k].has_content /\ fmt \in DOMAIN data[k].content }

\* the i-th position of a set of positions, in ascending order
Nth(S, i) == CHOOSE k \in S : Cardinality({j \in S : j < k}) = i - 1

\* C16: the content merge_results gives for a format is the contents of the
\* payloads that carry the format, in payload order, with "\n\n" between two
\* neighbours and nowhere else (each content of the payloads here is one token).
C16_MergeOrder ==
    [][ pc = "merge_data"
        => \A f \in Formats :
              LET S == Carriers(downloaded_data, f)
                  n == Cardinality(S)
              IN  n >= 1
                  => /\ f \in DOMAIN ret'
                     /\ Len(ret'[f].content) = 2 * n - 1
                     /\ \A i \in 1..n :
                           <<ret'[f].content[2 * i - 1]>> =
                               downloaded_data[Nth(S, i)].content[f]
                     /\ \A i \in 1..(n - 1) :
                           <<ret'[f].content[2 * i]>> = BlankLine ]_vars

\* payloads B, then one with no markdown, then A gave B, blank line, A
C16_Witness ==
    /\ pc = "returned" /\ Len(downloaded_data) = 3
    /\ downloaded_data[1] = Payload(TRUE, [f \in {"markdown"} |-> Text(2, f)])
    /\ downloaded_data[2] = Payload(TRUE, [f \in {"html"} |-> Text(1, f)])
    /\ downloaded_data[3] = Payload(TRUE, [f \in {"markdown"} |-> Text(1, f)])
    /\ ret["markdown"].content = Text(2, "markdown") \o BlankLine \o Text(1, "markdown")

\* C17: the keys of the result of merge_results are the formats some payload
\* carries, and the content of a format has one text per payload that carries
\* it, each of them a text of such a payload, and nothing for the others.
C17_MergeFormatUnion ==
    [][ pc = "merge_data"
        => /\ DOMAIN ret' = { f \in Formats : Carriers(downloaded_data, f) # {} }
           /\ \A f \in DOMAIN ret' :
                 LET texts == { k \in DOMAIN ret'[f].content :
                                   <<ret'[f].content[k]>> # BlankLine }
                 IN  /\ Cardinality(texts) = Cardinality(Carriers(downloaded_data, f))
                     /\ \A k \in texts :
                           \E m \in Carriers(downloaded_data, f) :
                              downloaded_data[m].content[f] = <<ret'[f].content[k]>> ]_vars

\* markdown from one payload and html from the other gave both keys, each
\* with the one text
C17_Witness ==
    /\ pc = "returned" /\ Len(downloaded_data) = 2
    /\ downloaded_data[1] = Payload(TRUE, [f \in {"markdown"} |-> Text(1, f)])
    /\ downloaded_data[2] = Payload(TRUE, [f \in {"html"} |-> Text(2, f)])
    /\ DOMAIN ret = {"markdown", "html"}
    /\ ret["markdown"].content = Text(1, "markdown")
    /\ ret["html"].content = Text(2, "html")

\* C18, as claimed: merge_results called with payloads of which none carries
\* a content sends no request, does not raise, and returns the empty map.
C18_Original ==
    (call.api = "merge_results"
     /\ \A k \in DOMAIN call.downloaded_data : ~call.downloaded_data[k].has_content)
    => /\ net = NoNet
       /\ pc # "raised"
       /\ pc = "returned" => ret = EmptyDict

\* C18 for the lists that have a payload: none of them carrying a content,
\* merge_results returns the empty map at once.
C18_NothingToMerge ==
    [][ (pc = "merge_results" /\ downloaded_data # <<>>
         /\ \A k \in DOMAIN downloaded_data : ~downloaded_data[k].has_content)
        => (pc' = "merge_data" /\ net' = net) ]_vars
    /\ []( (call.api = "merge_results" /\ call.downloaded_data # <<>>
            /\ \A k \in DOMAIN call.downloaded_data : ~call.downloaded_data[k].has_content)
           => (net = NoNet /\ pc # "raised" /\ (pc = "returned" => ret = EmptyDict)) )

-----------------------------------------------------------------------------
(* Properties of export *)

\* the formats a call of export asks for; with no list given, all of them
Requested(formats) ==
    IF formats = NoFormats THEN ExportNames
    ELSE { formats[i] : i \in DOMAIN formats }

\* the formats asked for that the merged map given to the call has
Wanted == Requested(call.export_formats) \cap DOMAIN call.merged_results

\* the files on the disk are those of the formats in fmts
Written(fmts) ==
    /\ DOMAIN disk = { OutputFile(call.file, f) : f \in fmts }
    /\ \A f \in fmts : disk[OutputFile(call.file, f)] = call.merged_results[f].content

\* C19, as claimed: with every file writable, export writes and returns the
\* files of exactly the formats that are requested and in the merged map; when
\* there is none, it sends no request, does not raise, writes no file and
\* returns the empty map.
C19_Original ==
    (call.api = "export" /\ call.unwritable = {})
    => /\ pc = "returned" => (DOMAIN ret = Wanted /\ Written(Wanted))
       /\ Wanted = {} => (net = NoNet /\ pc # "raised" /\ disk = EmptyDict)

\* C19 for the calls given a merged map that has a format and either no list
\* of formats or a list that names one.
C19_Selection ==
    (call.api = "export" /\ call.unwritable = {}
     /\ call.merged_results # EmptyDict /\ call.export_formats # <<>>)
    => /\ pc = "returned" => (DOMAIN ret = Wanted /\ Written(Wanted))
       /\ Wanted = {} => (net = NoNet /\ pc # "raised" /\ disk = EmptyDict)

\* the formats the write loop of export goes through
Selected ==
    IF merged_results = EmptyDict THEN {}
    ELSE ExportFormats(call.export_formats, DOMAIN merged_results)

\* C20: the write loop of export never raises; the map it returns has the
\* selected formats but those whose write failed, and every path of the map
\* is a file on the disk that holds the merged content of its format.
C20_WriteFailure ==
    [][ pc = "export_write"
        => /\ pc' = "returned"
           /\ DOMAIN ret' = Selected \ call.unwritable
           /\ \A f \in DOMAIN ret' :
                 /\ ret'[f] = OutputFile(call.file, f)
                 /\ ret'[f] \in DOMAIN disk'
                 /\ disk'[ret'[f]] = merged_results[f].content ]_vars

\* markdown and html selected, the markdown file not writable: html alone is
\* written and returned
C20_Witness ==
    /\ pc = "returned"
    /\ call.api = "export"
    /\ call.export_formats = <<"html", "markdown">>
    /\ call.unwritable = {"markdown"}
    /\ {"markdown", "html"} \subseteq DOMAIN call.merged_results
    /\ DOMAIN ret = {"html"}
    /\ DOMAIN disk = {OutputFile(call.file, "html")}
    /\ disk[OutputFile(call.file, "html")] = Text(1, "html")

-----------------------------------------------------------------------------
(* Properties of the error handling of process_document *)

\* C21: an exception raised by a stage that process_document calls goes to
\* its except clause, which raises the same exception out of the call; after
\* a failure no further stage runs, and a call that returns has seen none.
C21_ExceptionPropagates ==
    /\ [][ (call.api = "process_document" /\ pc # "process_document"
            /\ exc = None /\ exc' # None)
           => (pc' = "pd_except" /\ stack' = <<>>) ]_vars
    /\ [][ pc = "pd_except"
           => (pc' = "raised" /\ exc' = exc /\ ret' = NoValue) ]_vars
    /\ []( call.api = "process_document"
           => /\ exc # None => pc \in {"pd_except", "raised"}
              /\ pc = "returned" => exc = None )

\* the POST of the submit stage was refused: process_document raised HTTPError
\* before any status request
C21_Witness ==
    /\ call.api = "process_document"
    /\ pc = "raised" /\ exc = "HTTPError"
    /\ net = [NoNet EXCEPT !.submit = 1]
    /\ ret = NoValue

-----------------------------------------------------------------------------
(* Properties of two invocations on one client *)

\* C22: request_id and batch_results belong to the client, not to the
\* invocation: when the other invocation gets to run they stay as the one
\* that ran left them, and a download fetches the batches of batch_results
\* whichever invocation put them there, one payload per batch.
C22_SharedFields ==
    /\ [][ call' # call
           => (request_id' = request_id /\ batch_results' = batch_results) ]_vars
    /\ [][ (pc = "download_fetch" /\ exc' = None)
           => /\ Len(downloaded_data') = Len(ToFetch(batch_results))
              /\ \A k \in DOMAIN downloaded_data' :
                    downloaded_data'[k] \in SharedPayloads(ToFetch(batch_results)[k].id)
         ]_vars

\* the invocation for document 1 submitted job 1 itself, and has returned
\* and cached, under its own key, a file that holds the markdown of document 2
C22_Witness ==
    /\ call = SharedCall(1)
    /\ pc = "returned"
    /\ response.request_id = JobId(1)
    /\ CacheKey \in DOMAIN _cache
    /\ _cache[CacheKey].result = ret
    /\ ret = [f \in {"markdown"} |-> OutputFile(SharedFile(1), f)]
    /\ disk[ret["markdown"]] = Text(2, "markdown")

-----------------------------------------------------------------------------
(* Properties of convert_to_markdown, convert_to_html, convert_to_text *)

ConvertRuns == call.api \in {ConvertApi(f) : f \in ConvertFormats}

\* C24: a call of convert_to_* never raises; it returns the content of the
\* exported file of its format when process_document has returned a map with
\* that format, and None when process_document raised or the map lacks the
\* format.
C24_ConvertNeverRaises ==
    /\ [](ConvertRuns => pc # "raised")
    /\ [][ (ConvertRuns /\ pc # "returned" /\ pc' = "returned")
           => LET fmt == call.export_formats[1] IN
              IF pc = "convert_read" /\ fmt \in DOMAIN Processed
              THEN /\ exc' = None
                   /\ ret' = disk[OutputFile(call.file, fmt)]
                   /\ lookup # "hit" => ret' = merged_results[fmt].content
              ELSE ret' = NoContent ]_vars
    /\ []( (ConvertRuns /\ pc = "returned" /\ exc # None) => ret = NoContent )

\* the POST of convert_to_markdown was refused with a 500: the call returned None
C24_Witness ==
    /\ call.api = "convert_to_markdown"
    /\ pc = "returned" /\ ret = NoContent
    /\ exc = "HTTPError" /\ net = [NoNet EXCEPT !.submit = 1]

-----------------------------------------------------------------------------
(* Properties of the tool *)

InvokeRuns == call.api = "_invoke"

\* C23 as stated: whenever the conversion of the uploaded file fails with an
\* error, the invocation of the tool ends having yielded one text message
\* that carries the message of that error.
C23_Original ==
    (InvokeRuns /\ pc = "returned" /\ exc # None) => yielded = <<ErrorMessage(exc)>>

\* what holds instead: the invocation does not raise and ends with exactly one
\* message, a text, which is either without a text or the message of the
\* error met when the tool used None for a result
C23_FailureYieldsOtherText ==
    /\ [](InvokeRuns => pc # "raised")
    /\ []( (InvokeRuns /\ pc = "returned" /\ exc # None)
           => /\ tool_results = NoContent
              /\ yielded \in
                   { <<m>> : m \in IF call.as_file
                                   THEN {ErrorMessage("AttributeError")}
                                   ELSE TextOfNone } )

\* the POST was refused with a 500 and the invocation, asked for a file,
\* ended with the text of the AttributeError
C23_Failure ==
    /\ InvokeRuns /\ pc = "returned"
    /\ exc = "HTTPError" /\ net = [NoNet EXCEPT !.submit = 1]
    /\ call.as_file
    /\ yielded = <<ErrorMessage("AttributeError")>>

\* an invocation that has its file and its copy, for a supported result type
Convertible ==
    /\ InvokeRuns /\ pc = "_invoke"
    /\ call.files /\ call.api_key
    /\ call.faults \cap {"download", "original"} = {}
    /\ call.result_type \in ResultTypes

\* the step of _invoke that either returns the cached result or calls convert_to_*
ServedOrConverted ==
    \/ pc' = ConvertApi(FormatOf(call.result_type))
    \/ /\ pc' = "returned"
       /\ ToolCacheKey \in conversion_cache.keys
       /\ ResultPath(call.file.content, call.result_type) \in DOMAIN cache_files
       /\ yielded' = ReturnResult(cache_files[ResultPath(call.file.content,
                                                         call.result_type)],
                                  call.result_type, call.as_file)

\* the step of _invoke after a conversion that gave a result returns it
ResultReturned ==
    (InvokeRuns /\ pc = "invoke_converted" /\ tool_results # NoContent)
    => /\ pc' = "returned"
       /\ yielded' = ReturnResult(tool_results, call.result_type, call.as_file)

\* C25 as stated: whatever the index file held when the tool was constructed
\* and whatever fails in the cache, an invocation gets its conversion (or the
\* cached result), and a conversion result is returned whether or not it
\* could be cached.
C25_Original ==
    /\ [][Convertible => ServedOrConverted]_vars
    /\ [][ResultReturned]_vars

\* what holds: unless the index file holds a JSON value that is neither an
\* object nor an array, the cache never keeps an invocation from its
\* conversion; a conversion result is always returned, cached or not
C25_CacheFailuresLocal ==
    /\ [][ (Convertible /\ conversion_cache.json \in {"object", "array"})
           => ServedOrConverted ]_vars
    /\ [][ResultReturned]_vars
    /\ [](IndexPath \notin DOMAIN cache_files => conversion_cache.json = "object")

\* the index file held null: the invocation ended with the text of a
\* TypeError and without a conversion
C25_Failure ==
    /\ InvokeRuns /\ pc = "returned"
    /\ call.files /\ call.api_key /\ call.faults = {}
    /\ call.result_type = "md"
    /\ conversion_cache = Index("null", {})
    /\ net = NoNet
    /\ yielded = <<ErrorMessage("TypeError")>>

\* the result could not be written to the cache and was returned
C25_Unwritten ==
    /\ InvokeRuns /\ pc = "returned"
    /\ call.faults = {"result"}
    /\ tool_results # NoContent
    /\ ResultPath(call.file.content, call.result_type) \notin DOMAIN cache_files
    /\ yielded = <<TextMessage(tool_results)>>

-----------------------------------------------------------------------------
(* Properties of the polling of check_status, continued *)

\* check_status(wait=True) is at the head of one of its two loops, about to
\* run an iteration
SubmittedIteration == pc = "cs_submitted" /\ cs_wait /\ response_data.status = "submitted"
BatchIteration == pc = "cs_batches" /\ cs_wait /\ ~AllCompleted(batch_results)

\* C26: within one check_status(wait=True) the time is counted from the first
\* GET of the call in both loops (start_time is set there and never again);
\* an iteration of either loop that finds more than max_wait elapsed raises
\* TimeoutError without sleeping or polling, and any other iteration sleeps
\* and polls once.
C26_SingleBudget ==
    /\ [][ (pc = "check_status" /\ pc' = "cs_submitted") => start_time' = now ]_vars
    /\ [][ (pc \in {"cs_submitted", "cs_batches"}) => (start_time' = start_time) ]_vars
    /\ [][ ((SubmittedIteration \/ BatchIteration) /\ now - start_time > call.max_wait)
           => /\ pc' = "raised" /\ exc' = "TimeoutError"
              /\ now' = now /\ net' = net ]_vars
    /\ [][ ((SubmittedIteration \/ BatchIteration) /\ now - start_time <= call.max_wait)
           => /\ now' >= now + call.poll_interval
              /\ net'.status = net.status + 1
              /\ exc' # "TimeoutError" ]_vars

\* the budget was spent in the submitted phase: the batch phase timed out
\* before its first poll
C26_Witness ==
    /\ pc = "raised" /\ exc = "TimeoutError" /\ cs_wait
    /\ call.max_wait = 1
    /\ response_data.status = "processing"
    /\ batch_results # <<>>
    /\ updated_batches = <<>>
    /\ net.status = 2

\* a poll of the batch phase that got an answer
BatchPoll == BatchIteration /\ net'.status = net.status + 1 /\ pc' = "cs_batches"

\* C27 as stated: after a poll of the batch phase every tracked batch whose id
\* is in the response has the status and the download URL of the response.
C27_Original ==
    [][ BatchPoll =>
          \A k \in DOMAIN batch_results' : \A j \in DOMAIN updated_batches' :
              batch_results'[k].id = updated_batches'[j].id
              => /\ batch_results'[k].status = updated_batches'[j].status
                 /\ batch_results'[k].download_url = updated_batches'[j].download_url
      ]_vars

\* what holds: the status is that of the response; the download URL is that
\* of the response when the response says completed and gives one, and is
\* left as it was otherwise
C27_StatusReplaced ==
    [][ BatchPoll =>
          /\ DOMAIN batch_results' = DOMAIN batch_results
          /\ \A k \in DOMAIN batch_results' : \A j \in DOMAIN updated_batches' :
              batch_results'[k].id = updated_batches'[j].id
              => /\ batch_results'[k].status = updated_batches'[j].status
                 /\ batch_results'[k].download_url =
                      IF updated_batches'[j].status = "completed"
                         /\ updated_batches'[j].download_url # NoUrl
                      THEN updated_batches'[j].download_url
                      ELSE batch_results[k].download_url
      ]_vars

\* a tracked batch that the last poll reported as processing keeps the
\* download URL it had
C27_StaleUrl ==
    /\ pc = "cs_batches" /\ cs_wait
    /\ \E k \in DOMAIN batch_results : \E j \in DOMAIN updated_batches :
         /\ batch_results[k].id = updated_batches[j].id
         /\ updated_batches[j].status = "processing"
         /\ updated_batches[j].download_url = NoUrl
         /\ batch_results[k].status = "processing"
         /\ batch_results[k].download_url # NoUrl

\* the response check_status reads its batch list from lacks "batches"
FirstFetchNoList ==
    /\ pc = "cs_submitted"
    /\ ~(cs_wait /\ response_data.status = "submitted")
    /\ ~response_data.has_batches

\* C28 as stated, for a service whose polls of the batch phase all lack the
\* batch list: the first fetch without the list fails, and so does every
\* poll of the batch phase that is sent.
C28_Original ==
    /\ [][ FirstFetchNoList => (pc' = "raised" /\ exc' = "ValueError") ]_vars
    /\ [][ (BatchIteration /\ net'.status = net.status + 1) => pc' = "raised" ]_vars

\* what holds: the first fetch without the list fails with ValueError and
\* tracks nothing; a poll of the batch phase without the list changes no
\* tracked batch and the loop goes on
C28_FirstFetchFails ==
    /\ [][ FirstFetchNoList
           => (pc' = "raised" /\ exc' = "ValueError" /\ batch_results' = batch_results)
       ]_vars
    /\ [][ BatchPoll => (updated_batches' = <<>> /\ batch_results' = batch_results)
       ]_vars

\* check_status went on after a poll of the batch phase that had no list
C28_PollWithoutList ==
    /\ pc = "cs_batches" /\ cs_wait
    /\ net.status = 2
    /\ response_data.status # "submitted"
    /\ batch_results # <<>>
    /\ exc = None

-----------------------------------------------------------------------------
(* Properties of the order of the pipeline of process_document *)

\* the position process_document goes on at once the stage it is in returns
PdStage == IF stack = <<>> THEN pc ELSE stack[Len(stack)]

\* merge_results or export has called the stage before it once more
\* (lines 555-557, 625-627)
Reentered == \E i \in DOMAIN stack : stack[i] \in {"merge_data", "export_write"}

\* the events of one step are in the place the pipeline gives them: the POST
\* first, the status GETs before any download GET and not later than the
\* download stage, the download GETs in the download stage, the merge in the
\* merge stage, the writes in the export stage, then the ProcessCache entry,
\* and the return right after it
InOrder ==
    /\ net'.submit # net.submit
       => (PdStage = "pd_requested" /\ net.status = 0 /\ net.download = 0)
    /\ net'.status # net.status
       => (PdStage \in {"pd_requested", "pd_download", "pd_merge"} /\ net.download = 0)
    /\ net'.download # net.download => (PdStage = "pd_merge" /\ ~cs_wait)
    /\ merged_results' # merged_results => PdStage = "pd_export"
    /\ disk' # disk => PdStage = "pd_store"
    /\ _cache' # _cache => pc \in {"process_document", "pd_store"}
    /\ (pc' = "returned" /\ pc # "process_document")
       => /\ pc = "pd_store"
          /\ CacheKey \in DOMAIN _cache'
          /\ _cache'[CacheKey].result = ret'

\* C29 as stated: in a process_document that misses the cache the events come
\* in the order submit, polling, reconciliation, downloads, merge, export,
\* ProcessCache write, return.
C29_Original ==
    [][ call.api = "process_document" => InOrder ]_vars

\* what holds: the order is kept as long as neither merge_results nor export
\* has started the stage before it again, which they do only when download
\* returned no payload or the merge gave no format
C29_OrderUnlessEmpty ==
    /\ [][ (call.api = "process_document" /\ ~Reentered) => InOrder ]_vars
    /\ [][ (call.api = "process_document" /\ ~Reentered /\ Reentered')
           => \/ pc = "merge_results" /\ downloaded_data = <<>>
              \/ pc = "export" /\ merged_results = EmptyDict ]_vars

\* a download request sent by merge_results, after download had returned
C29_LateDownload ==
    /\ call.api = "process_document"
    /\ pc = "merge_data" /\ stack = <<"pd_export">>
    /\ net.status = 3
    /\ net.download > 0
    /\ downloaded_data # <<>>

-----------------------------------------------------------------------------
(* Properties of the order of download *)

\* the batches of the list that are completed with a download URL, in the
\* order of the list
InListOrder == SelectSeq(batch_results, Downloadable)

\* C30: download sends its requests one after the other in the order of the
\* batch list: a download that returns has sent one request per downloadable
\* batch and returns one payload per such batch, the k-th payload being that
\* of the k-th downloadable batch of the list, so in ascending batch id when
\* the list is the reconciled one; a download that raises has sent at most
\* as many requests as there are such batches.
C30_DownloadOrder ==
    [][ pc = "download_fetch"
        => LET sent == net'.download - net.download IN
           IF pc' = "raised"
           THEN sent >= 1 /\ sent <= Len(InListOrder)
           ELSE /\ sent = Len(InListOrder)
                /\ Len(ret') = Len(InListOrder)
                /\ downloaded_data' = ret'
                /\ \A k \in DOMAIN ret' : PayloadOf(ret'[k], InListOrder[k])
                /\ batch_results = Reconcile(batch_results)
                   => \A a, b \in DOMAIN ret' :
                         a < b => InListOrder[a].id < InListOrder[b].id
      ]_vars

\* the list had batch 3 before batch 1: so has the returned sequence
C30_Witness ==
    /\ pc = "returned" /\ Len(batch_results) = 2
    /\ batch_results[1] = BatchResult(3, "completed", UrlOf(3), 3, 3)
    /\ batch_results[2] = BatchResult(1, "completed", UrlOf(1), 1, 1)
    /\ Len(ret) = 2 /\ net.download = 2
    /\ ret[1].has_content /\ PayloadOf(ret[1], batch_results[1])
    /\ ret[2].has_content /\ PayloadOf(ret[2], batch_results[2])

-----------------------------------------------------------------------------
(* Properties of the caches over a sequence of calls *)

\* C31: a file fingerprint that _request_id_cache maps to a job id stays
\* mapped to that job id through every step of every later call of request,
\* check_status, download and process_document, failing or not.
C31_RequestCacheMonotone ==
    [][ \A k \in DOMAIN _request_id_cache :
           /\ k \in DOMAIN _request_id_cache'
           /\ _request_id_cache'[k] = _request_id_cache[k] ]_vars

\* the job of the first file is still cached after a later process_document
\* of another file has submitted its own job and timed out
C31_Witness ==
    /\ pc = "raised" /\ exc = "TimeoutError"
    /\ call.api = "process_document" /\ call.file.content = "Y"
    /\ _request_id_cache =
         [k \in {Sha256("X"), Sha256("Y")} |->
            IF k = Sha256("X") THEN JobId(1) ELSE JobId(2)]

\* process_document runs for a file whose bytes have been submitted
\* successfully before this step
KnownFile ==
    /\ call.api = "process_document" /\ call.file.exists
    /\ Sha256(call.file.content) \in DOMAIN _request_id_cache

\* C32: a process_document for bytes whose submission succeeded earlier (the
\* earlier call may have failed afterwards) reaches request, sends no POST
\* there, creates no job and takes the cached job id, goes on to
\* check_status, and every status GET it sends is for that cached job.
C32_NoResubmission ==
    /\ [][ (KnownFile /\ pc = "request")
           => /\ net' = net /\ jobs' = jobs
              /\ _request_id_cache' = _request_id_cache
              /\ request_id' = CachedId
              /\ pc' = IF call.wait THEN "check_status" ELSE "pd_requested" ]_vars
    /\ [][ (KnownFile /\ pc = "pd_requested" /\ ~call.wait) => pc' = "check_status" ]_vars
    /\ [][ (KnownFile /\ net'.status # net.status) => request_id = CachedId ]_vars
    /\ [][ (KnownFile /\ pc # "request" /\ ~Idle)
           => (net'.submit = net.submit /\ jobs' = jobs) ]_vars

\* the first process_document submitted job 1 and failed; the second, of the
\* same bytes, sent no POST, polled job 1 and returned its result
C32_Witness ==
    /\ call.api = "process_document" /\ pc = "returned" /\ ncalls = 2
    /\ lookup = "miss"
    /\ net.submit = 0 /\ net.status > 0 /\ net.download > 0
    /\ jobs = 1 /\ request_id = JobId(1)
    /\ Cardinality(DOMAIN _cache) = 1

\* process_document is running
PdRuns == call.api = "process_document" /\ ~Idle

\* C33: a process_document that has raised leaves no ProcessCache entry under
\* its key: no step before the store of lines 731-733 adds an entry, the
\* entry the lookup evicted is not put back, and no step of the call adds,
\* removes or changes an entry under another key.
C33_FailureFrame ==
    /\ []( (call.api = "process_document" /\ pc = "raised") => CacheKey \notin DOMAIN _cache )
    /\ [][ (PdRuns /\ pc # "pd_store") => DOMAIN _cache' \subseteq DOMAIN _cache ]_vars
    /\ [][ (PdRuns /\ lookup \in {"expired", "deleted"} /\ pc # "pd_store")
           => CacheKey \notin DOMAIN _cache' ]_vars
    /\ [][ PdRuns => /\ DOMAIN _cache' \ {CacheKey} = DOMAIN _cache \ {CacheKey}
                     /\ \A k \in DOMAIN _cache \ {CacheKey} : _cache'[k] = _cache[k] ]_vars

\* the entry of an earlier run had expired and was evicted; the download of
\* the new run failed and the cache is empty
C33_Witness ==
    /\ call.api = "process_document" /\ pc = "raised" /\ ncalls = 2
    /\ lookup = "expired"
    /\ exc \in {"HTTPError", "JSONDecodeError"} /\ net.download > 0
    /\ _cache = EmptyDict

\* C34: a request that fails in its submission (missing file, POST refused
\* with an error status, body without request_id) leaves self.request_id and
\* _request_id_cache as they were, the bytes of its file without a cached
\* job, and so the next request of those bytes sends a POST.
C34_SubmitFailureFrame ==
    /\ [][ (call.api = "request" /\ pc = "request" /\ pc' = "raised")
           => /\ request_id' = request_id
              /\ _request_id_cache' = _request_id_cache
              /\ exc' \in {"FileNotFoundError", "HTTPError", "ValueError"}
              /\ call.file.exists
                 => Sha256(call.file.content) \notin DOMAIN _request_id_cache' ]_vars
    /\ [][ (call.api = "request" /\ AtRequest
            /\ Sha256(call.file.content) \notin DOMAIN _request_id_cache)
           => net'.submit = net.submit + 1 ]_vars

\* the POST of the second file was refused: the client still holds the job
\* of the first file, and only that one is cached
C34_Witness ==
    /\ call.api = "request" /\ pc = "raised" /\ exc = "HTTPError" /\ ncalls = 2
    /\ call.file.content = "Y"
    /\ net.submit = 1
    /\ request_id = JobId(1)
    /\ DOMAIN _request_id_cache = {Sha256("X")}

-----------------------------------------------------------------------------
(* Properties of the fetches of process_document *)

\* a batch of the list has the page range of b and a greater id
SupersededIn(b, batches) ==
    \E j \in DOMAIN batches :
        /\ PageKey(batches[j]) = PageKey(b)
        /\ batches[j].id > b.id

\* the batches the step of download sends a request for
FetchedBy(n) == { ToFetch(batch_results)[k] : k \in 1..n }

\* C35 as stated: process_document requests the download URL of no batch
\* that shares its page range with a batch of greater id reported by the
\* service, and when it returns it has sent exactly one download request per
\* completed batch of the reconciled list.
C35_Original ==
    /\ [][ (call.api = "process_document" /\ pc = "download_fetch")
           => \A b \in FetchedBy(net'.download - net.download) :
                 ~SupersededIn(b, Reported) ]_vars
    /\ [][ (call.api = "process_document" /\ pc = "pd_store" /\ pc' = "returned")
           => net.download = Cardinality(Fetchable(batch_results)) ]_vars

\* what holds: the batches requested are batches of the list check_status
\* tracked and reconciled, none of them superseded in that list, and one
\* run of download requests each of them at most once
C35_TrackedSurvivorsOnly ==
    [][ (call.api = "process_document" /\ pc = "download_fetch")
        => /\ batch_results = Reconcile(batch_results)
           /\ net'.download - net.download <= Cardinality(Fetchable(batch_results))
           /\ \A b \in FetchedBy(net'.download - net.download) :
                 /\ \E k \in DOMAIN batch_results : batch_results[k] = b
                 /\ ~SupersededIn(b, batch_results) ]_vars

\* the payload of the one batch had no content: export merged and
\* downloaded again, and the batch was requested twice
C35_FetchedTwice ==
    /\ call.api = "process_document" /\ pc = "returned"
    /\ Len(batch_results) = 1
    /\ net.download = 2
    /\ ret = EmptyDict

-----------------------------------------------------------------------------
(* Properties of the reconciliation of check_status(wait=True) *)

\* no two batches of the list have the same (start_page, end_page)
DistinctRanges(batches) ==
    \A i, j \in DOMAIN batches : i # j => PageKey(batches[i]) # PageKey(batches[j])

IdsOf(batches) == { batches[k].id : k \in DOMAIN batches }

\* check_status(wait=True) returns its list
WaitReturns == call.api = "check_status" /\ call.wait /\ pc = "cs_batches" /\ pc' = "returned"

\* C36 as stated: when the last status response reports batches with
\* pairwise distinct page ranges, every one of them is in the list that
\* check_status(wait=True) returns, also when the response that first listed
\* them had no page numbers for them.  Stated for the responses whose
\* batches were all listed by that first response, so that none is missing
\* for having appeared late.
C36_Original ==
    [][ (WaitReturns /\ DistinctRanges(Reported)
           /\ IdsOf(Reported) \subseteq IdsOf(response_data.batches))
        => IdsOf(Reported) \subseteq IdsOf(ret') ]_vars

\* what holds: the page numbers of a tracked batch stay those of the response
\* that first listed it, and when those are pairwise distinct every tracked
\* batch is in the returned list
C36_FirstSeenRangesDecide ==
    /\ [][ (pc = "cs_batches" /\ pc' = "cs_batches")
           => /\ Len(batch_results') = Len(batch_results)
              /\ \A k \in DOMAIN batch_results :
                    PageKey(batch_results'[k]) = PageKey(batch_results[k]) ]_vars
    /\ [][ (WaitReturns /\ DistinctRanges(batch_results))
           => IdsOf(ret') = IdsOf(batch_results) ]_vars

\* both batches were first listed without page numbers, the last response
\* gives them different page ranges, and batch 1 is not in the returned list
C36_NullRangesLost ==
    /\ call.api = "check_status" /\ call.wait /\ pc = "returned"
    /\ IdsOf(response_data.batches) = {1, 2}
    /\ \A k \in DOMAIN response_data.batches :
          PageKey(response_data.batches[k]) = <<NoPage, NoPage>>
    /\ IdsOf(updated_batches) = {1, 2}
    /\ DistinctRanges(updated_batches)
    /\ IdsOf(ret) = {2}

-----------------------------------------------------------------------------
(* Properties of empty results in the process cache *)

\* the entry of the key of the call holds the empty map and is younger than
\* the TTL
EmptyEntry ==
    /\ call.api = "process_document" /\ call.file.exists
    /\ CacheKey \in DOMAIN _cache
    /\ _cache[CacheKey].result = EmptyDict
    /\ now - _cache[CacheKey].timestamp < CacheTTL

\* C37: a run of process_document that ends with an empty export map stores
\* the empty map under its key and returns it, and a later call with the same
\* key within the TTL returns the empty map from the cache, with no network
\* request and no change of the cache.
C37_EmptyResultsCached ==
    /\ [][ (pc = "pd_store" /\ exported_files = EmptyDict)
           => /\ pc' = "returned" /\ ret' = EmptyDict
              /\ _cache' = Put(_cache, CacheKey, [result |-> EmptyDict, timestamp |-> now])
         ]_vars
    /\ [][ (pc = "process_document" /\ EmptyEntry)
           => /\ pc' = "returned" /\ ret' = EmptyDict /\ lookup' = "hit"
              /\ net' = NoNet /\ jobs' = jobs
              /\ _cache' = _cache ]_vars

\* the second call found the empty map of the first, some time later, and
\* returned it without a request
C37_Witness ==
    /\ call.api = "process_document" /\ pc = "returned"
    /\ ncalls = 2
    /\ lookup = "hit"
    /\ ret = EmptyDict
    /\ net = NoNet
    /\ jobs = 1
    /\ now - _cache[CacheKey].timestamp = CacheTTL - 1

-----------------------------------------------------------------------------
(* Properties of the files behind the process cache *)

\* the file at every path of the map holds the markdown of document d
HoldsDocument(d, map) ==
    \A f \in DOMAIN map :
        map[f] \in DOMAIN disk /\ disk[map[f]] = Text(d, f)

\* C38 as stated: the files at the paths of a map that process_document
\* returns from the cache hold the content exported for the file of the
\* call, and a run for another file of the same name leaves the files of
\* every cached entry with the content of the file of its key.
C38_Original ==
    /\ [][ (pc = "process_document" /\ pc' = "returned")
           => HoldsDocument(StemDocOf(call.file), ret') ]_vars
    /\ [][ (pc = "pd_store" /\ pc' = "returned")
           => \A d \in StemDocs :
                 GenerateCacheKey(StemFile(d), <<"markdown">>) \in DOMAIN _cache'
                 => HoldsDocument(d, _cache'[GenerateCacheKey(StemFile(d),
                                                              <<"markdown">>)].result)
         ]_vars

\* what holds: a map returned from the cache is the map stored under the
\* key of the call, its files hold what the last export to their paths
\* wrote, and they hold the content of the file of the call when no other
\* document has its name
C38_FreshForOwnName ==
    /\ [][ (pc = "process_document" /\ pc' = "returned")
           => /\ ret' = _cache[CacheKey].result
              /\ disk' = disk
              /\ \E d \in StemDocs : StemFile(d).stem = call.file.stem
                                     /\ HoldsDocument(d, ret')
              /\ (\A d \in StemDocs : StemFile(d).stem = call.file.stem
                                      => StemFile(d) = call.file)
                 => HoldsDocument(StemDocOf(call.file), ret') ]_vars
    /\ [][ (pc = "pd_store" /\ pc' = "returned")
           => HoldsDocument(StemDocOf(call.file), ret') ]_vars

\* the call for document 1 is answered from the cache with the path of a
\* file that holds the markdown of document 2
C38_StaleHit ==
    /\ call = StemCall(1)
    /\ pc = "returned" /\ lookup = "hit"
    /\ net = NoNet
    /\ ret = [f \in {"markdown"} |-> OutputFile(StemFile(1), f)]
    /\ disk[ret["markdown"]] = Text(2, "markdown")

-----------------------------------------------------------------------------
(* Properties of the file cache of the tool *)

\* the result cache files
ResultFiles(files) == { p \in DOMAIN files : p[2] \in ResultTypes }

\* the markdown a successful conversion of the file gives: the one batch
Converted == Text(1, "markdown")

\* the step of _invoke that answers from the file cache
ServedFromCache ==
    /\ InvokeRuns /\ pc = "_invoke" /\ pc' = "returned"
    /\ call.files /\ call.api_key
    /\ conversion_cache.json = "object"
    /\ ToolCacheKey \in conversion_cache.keys
    /\ ResultPath(call.file.content, call.result_type) \in DOMAIN cache_files
    /\ "read" \notin call.faults

\* C39 as stated: the text the tool answers with from its file cache is the
\* output of an earlier successful conversion of the same file hash and
\* result type, and a conversion that returned None adds no index entry and
\* changes the content of no result cache file that exists.
C39_Original ==
    /\ [][ ServedFromCache
           => yielded' = ReturnResult(Converted, call.result_type, call.as_file) ]_vars
    /\ [][ (InvokeRuns /\ pc = "invoke_converted" /\ tool_results = NoContent)
           => /\ conversion_cache' = conversion_cache
              /\ \A p \in ResultFiles(cache_files) : cache_files'[p] = cache_files[p]
         ]_vars

\* what holds: a conversion that returned None adds no index entry and
\* changes no file but the result cache file of its hash and result type,
\* which it leaves empty; a conversion that returned a text leaves that text
\* in the file; and an answer from the cache is the content of the file,
\* the text of a conversion or nothing
C39_EmptiedNotIndexed ==
    /\ [][ (InvokeRuns /\ pc = "invoke_converted" /\ tool_results = NoContent)
           => /\ conversion_cache' = conversion_cache
              /\ cache_files' = Put(cache_files,
                                    ResultPath(call.file.content, call.result_type), <<>>)
         ]_vars
    /\ [][ (InvokeRuns /\ pc = "invoke_converted" /\ tool_results # NoContent)
           => /\ tool_results = Converted
              /\ cache_files'[ResultPath(call.file.content, call.result_type)] = Converted
              /\ (conversion_cache.json = "object"
                  => ToolCacheKey \in conversion_cache'.keys) ]_vars
    /\ [][ ServedFromCache
           => \E text \in {Converted, <<>>} :
                 /\ text = cache_files[ResultPath(call.file.content, call.result_type)]
                 /\ yielded' = ReturnResult(text, call.result_type, call.as_file) ]_vars

\* the third invocation is answered from the cache with an empty text
C39_EmptyAnswer ==
    /\ InvokeRuns /\ pc = "returned"
    /\ ncalls = 3
    /\ ~call.as_file /\ call.faults = {}
    /\ net = NoNet
    /\ ToolCacheKey \in conversion_cache.keys
    /\ yielded = <<TextMessage(<<>>)>>

-----------------------------------------------------------------------------
(* Properties of the wait flag of process_document *)

\* the call with wait=False has ended
SecondEnded ==
    /\ suspended[1] = "second"
    /\ call.api = "process_document" /\ ~call.wait
    /\ pc \in {"returned", "raised"}

====
